---- MODULE Spec2Model ----
(***************************************************************************)
(* A fixed-capacity LRU cache (paulhuggett/cache): an open-addressing hash *)
(* table with tombstones (iumap), an intrusive recency list over a fixed   *)
(* node array (lru_list), and the cache that composes the two.             *)
(*                                                                         *)
(* Pointers into the two fixed arrays are array indices; nullptr is Null   *)
(* and the table's end() iterator is the index one past the last slot.     *)
(*                                                                         *)
(* The table and the list are modelled from iumap.hpp and lru_list.hpp.    *)
(* cache.hpp holds earlier variants of both classes (no tombstones_        *)
(* counter, no reset when erase empties the table); the cache of main.cpp  *)
(* never reads the counter and, for Size >= 2, never empties its table, so *)
(* it behaves the same on either pair.                                     *)
(***************************************************************************)
EXTENDS Integers, Sequences, FiniteSets, TLC

\* ------------------------------------------------------------------ bounds
\* The capacities (template parameter Size) the model instantiates, both
\* powers of two as iumap requires: 4 is the cache of main() and of the cache
\* tests, 2 the smallest table the tests build.
SmallSize == 2
BigSize == 4
Sizes == {SmallSize, BigSize}

\* The capacity-2 cache is driven with keys 1..MaxKey and values 1..MaxVal; the
\* capacity-4 cache with the smallest alphabet that overflows it (five keys,
\* one value).
MaxKey == 4
MaxVal == 2

Keys(Size) == IF Size = SmallSize THEN 1..MaxKey ELSE 1..(Size + 1)
Values(Size) == IF Size = SmallSize THEN 1..MaxVal ELSE {1}

\* nullptr
Null == -1
\* storage that holds no constructed object
NoKey == 0
NoValue == 0

VARIABLES
  cap,     \* the template parameter Size of this cache instance
  h,       \* cache::h, the iumap<Key const, node *, Size>
  lru,     \* cache::lru, the lru_list<pair<Key, Value>, Size>
  watch,   \* whether the calls are recorded in call
  call,    \* the most recent call, what it returned and whether its key was
           \* cached (hit), when watch
  evicted, \* the key of the payload the evictor was last called with
  abs,     \* reference LRU map: <<key, value>> pairs, most recent first
  written, \* per key, the value last set and not evicted since (else NoValue)
  fill,    \* the calls so far, while they are sets of pairwise distinct keys
  promo,   \* progress of the scenario "fill, find the first key, overflow"
  tab,     \* an iumap<int, int, Size> used on its own
  ref,     \* reference map for tab: per key its value (else NoValue), while in step
  tcall,   \* the most recent call on tab and what it returned
  tab2,    \* a second iumap<int, int, Size>, copied from tab and assigned to it
  probe,   \* a probing loop under way: table size, pos, iteration, positions read
  lst,     \* an lru_list<pair<int, int>, Size> used on its own
  lcall,   \* the most recent call on lst and what it returned
  labs     \* reference list for lst: its entries most recent first, what the
           \* last add dropped, and the entry that was dropped last

\* ------------------------------------------------------------------ iumap
\* std::hash<int> is the identity.
Hash(key) == key

unused_member == [state |-> "unused", key |-> NoKey, mapped |-> Null]

\* A default-constructed iumap<.., Size>.
iumap_new(Size) ==
  [v_ |-> [i \in 0..(Size - 1) |-> unused_member], size_ |-> 0, tombstones_ |-> 0]

\* v_.size()
iumap_capacity(T) == Cardinality(DOMAIN T.v_)

\* end(): one past the last slot.
iumap_end(T) == iumap_capacity(T)

\* The probing loop of lookup_slot, from (pos, iteration) on.
RECURSIVE lookup_probe(_, _, _, _)
lookup_probe(T, key, pos, iteration) ==
  LET size == iumap_capacity(T)
      slot == T.v_[pos]
      next == (pos + iteration) % size
  IN  IF iteration > size THEN Null
      ELSE IF slot.state = "unused" THEN pos
      ELSE IF slot.state = "occupied" /\ slot.key = key THEN pos
      ELSE lookup_probe(T, key, next, iteration + 1)

\* Mutation of lookup_slot: an occupied slot is returned without comparing keys.
RECURSIVE lookup_probe_nocompare(_, _, _, _)
lookup_probe_nocompare(T, key, pos, iteration) ==
  LET size == iumap_capacity(T)
  IN  IF iteration > size THEN Null
      ELSE IF T.v_[pos].state \in {"unused", "occupied"} THEN pos
      ELSE lookup_probe_nocompare(T, key, (pos + iteration) % size, iteration + 1)

lookup_slot_nocompare(T, key) ==
  lookup_probe_nocompare(T, key, Hash(key) % iumap_capacity(T), 1)

\* n & m for unsigned n and m.
RECURSIVE bit_and(_, _)
bit_and(n, m) ==
  IF n = 0 \/ m = 0 THEN 0
  ELSE (n % 2) * (m % 2) + 2 * bit_and(n \div 2, m \div 2)

\* n > 0U && !(n & (n - 1U))
is_power_of_two(n) == n > 0 /\ bit_and(n, n - 1) = 0

\* Mutation of probe_step: the step is the same in every iteration (linear
\* probing by two).
probe_step_by_two(pos, iteration, size) == (pos + 2) % size

\* pos = (pos + iteration) % size, the step of both probing loops.
probe_step(pos, iteration, size) == (pos + iteration) % size

\* The positions the probing loops visit from pos on, in iterations
\* iteration..size, when no slot ends the search.
RECURSIVE probe_from(_, _, _)
probe_from(pos, iteration, size) ==
  IF iteration > size THEN <<>>
  ELSE <<pos>> \o probe_from(probe_step(pos, iteration, size), iteration + 1, size)

\* The probe sequence of key in T.
probe_positions(T, key) == probe_from(Hash(key) % iumap_capacity(T), 1, iumap_capacity(T))

\* Slot holding key, or the first unused slot probed, or Null after Size probes.
lookup_slot(T, key) == lookup_probe(T, key, Hash(key) % iumap_capacity(T), 1)

\* The probing loop of find_insert_slot, from (pos, iteration) on.
RECURSIVE insert_probe(_, _, _, _, _)
insert_probe(T, key, pos, iteration, first_tombstone) ==
  LET size == iumap_capacity(T)
      slot == T.v_[pos]
      next == (pos + iteration) % size
  IN  IF iteration > size THEN first_tombstone
      ELSE IF slot.state = "tombstone"
        THEN insert_probe(T, key, next, iteration + 1,
                          IF first_tombstone = Null THEN pos ELSE first_tombstone)
      ELSE IF slot.state = "occupied"
        THEN IF slot.key = key THEN pos
             ELSE insert_probe(T, key, next, iteration + 1, first_tombstone)
      ELSE IF first_tombstone # Null THEN first_tombstone ELSE pos

\* Mutation of find_insert_slot: only the key's home slot is probed.
find_insert_slot_home_only(T, key) ==
  LET pos == Hash(key) % iumap_capacity(T)
  IN  IF T.v_[pos].state # "occupied" \/ T.v_[pos].key = key THEN pos ELSE Null

\* Mutation of find_insert_slot: when the probes end without a slot, the key's
\* home slot is returned.
find_insert_slot_never_null(T, key) ==
  LET slot == insert_probe(T, key, Hash(key) % iumap_capacity(T), 1, Null)
  IN  IF slot = Null THEN Hash(key) % iumap_capacity(T) ELSE slot

\* Mutation of find_insert_slot: an unused slot is preferred to a tombstone met
\* before it.
RECURSIVE insert_probe_prefers_unused(_, _, _, _, _)
insert_probe_prefers_unused(T, key, pos, iteration, first_tombstone) ==
  LET size == iumap_capacity(T)
      slot == T.v_[pos]
      next == (pos + iteration) % size
  IN  IF iteration > size THEN first_tombstone
      ELSE IF slot.state = "tombstone"
        THEN insert_probe_prefers_unused(T, key, next, iteration + 1,
                          IF first_tombstone = Null THEN pos ELSE first_tombstone)
      ELSE IF slot.state = "occupied"
        THEN IF slot.key = key THEN pos
             ELSE insert_probe_prefers_unused(T, key, next, iteration + 1, first_tombstone)
      ELSE pos

find_insert_slot_prefers_unused(T, key) ==
  insert_probe_prefers_unused(T, key, Hash(key) % iumap_capacity(T), 1, Null)

\* Mutation of find_insert_slot: the search ends at the first tombstone.
RECURSIVE insert_probe_stops_at_tombstone(_, _, _, _)
insert_probe_stops_at_tombstone(T, key, pos, iteration) ==
  LET size == iumap_capacity(T)
      slot == T.v_[pos]
  IN  IF iteration > size THEN Null
      ELSE IF slot.state = "occupied" /\ slot.key # key
        THEN insert_probe_stops_at_tombstone(T, key, (pos + iteration) % size, iteration + 1)
      ELSE pos

find_insert_slot_stops_at_tombstone(T, key) ==
  insert_probe_stops_at_tombstone(T, key, Hash(key) % iumap_capacity(T), 1)

find_insert_slot(T, key) == insert_probe(T, key, Hash(key) % iumap_capacity(T), 1, Null)

\* move_forward_to_occupied: the first occupied slot at or after slot, or end().
RECURSIVE move_forward_to_occupied(_, _)
move_forward_to_occupied(T, slot) ==
  IF slot < iumap_end(T) /\ T.v_[slot].state # "occupied"
    THEN move_forward_to_occupied(T, slot + 1)
    ELSE slot

\* move_backward_to_occupied: the last occupied slot at or before slot, or the
\* position one before the array.
RECURSIVE move_backward_to_occupied(_, _)
move_backward_to_occupied(T, slot) ==
  IF slot >= 0 /\ T.v_[slot].state # "occupied"
    THEN move_backward_to_occupied(T, slot - 1)
    ELSE slot

\* begin(): the iterator's constructor moves from the first slot to an
\* occupied one.
iumap_begin(T) == move_forward_to_occupied(T, 0)

\* Mutation of operator++: the iterator moves to the next slot, whatever its
\* state.
iterator_inc_any(T, slot) == slot + 1

\* iterator_type::operator++
iterator_inc(T, slot) == move_forward_to_occupied(T, slot + 1)

\* Mutation of operator--: the iterator moves to the previous slot, whatever
\* its state.
iterator_dec_any(T, slot) == slot - 1

\* iterator_type::operator--
iterator_dec(T, slot) == move_backward_to_occupied(T, slot - 1)

\* iterator_type::operator+=, operator-=, operator+ and operator-. A negative
\* n is handed to the opposite operator; otherwise n single steps are taken.
RECURSIVE iterator_add_assign(_, _, _)
RECURSIVE iterator_sub_assign(_, _, _)
RECURSIVE iterator_plus(_, _, _)
RECURSIVE iterator_minus(_, _, _)
iterator_add_assign(T, slot, n) ==
  IF n < 0 THEN iterator_minus(T, slot, -n)
  ELSE IF n > 0 THEN iterator_add_assign(T, iterator_inc(T, slot), n - 1)
  ELSE slot

iterator_sub_assign(T, slot, n) ==
  IF n < 0 THEN iterator_plus(T, slot, -n)
  ELSE IF n > 0 THEN iterator_sub_assign(T, iterator_dec(T, slot), n - 1)
  ELSE slot

iterator_plus(T, it, n) == iterator_add_assign(T, it, n)

iterator_minus(T, it, n) == iterator_sub_assign(T, it, n)

\* iumap::find: the slot of k, or end().
iumap_find(T, k) ==
  LET slot == lookup_slot(T, k)
  IN  IF slot = Null \/ T.v_[slot].state # "occupied" THEN iumap_end(T) ELSE slot

\* Mutation of find: the slot the lookup stops at is marked as a tombstone.
iumap_find_call_marks(T, k) ==
  LET slot == lookup_slot(T, k)
  IN  [t |-> IF slot = Null THEN T
             ELSE [T EXCEPT !.v_[slot] = [state |-> "tombstone", key |-> NoKey, mapped |-> Null]],
       it |-> iumap_find(T, k)]

\* The non-const iumap::find as a call: [t: the table afterwards, it: the
\* iterator]. lookup_slot takes the container by reference and assigns nothing.
iumap_find_call(T, k) == [t |-> T, it |-> iumap_find(T, k)]

\* Mutation of clear: tombstones are left in place.
iumap_clear_keeps_tombstones(T) ==
  [v_ |-> [i \in DOMAIN T.v_ |->
             IF T.v_[i].state = "tombstone" THEN T.v_[i] ELSE unused_member],
   size_ |-> 0, tombstones_ |-> 0]

\* iumap::clear
iumap_clear(T) ==
  [v_ |-> [i \in DOMAIN T.v_ |-> unused_member], size_ |-> 0, tombstones_ |-> 0]

\* Mutation of try_emplace: size_ is not incremented when a tombstone is reused.
iumap_try_emplace_reuse_uncounted(T, key, mapped) ==
  LET slot == find_insert_slot(T, key)
  IN  IF slot = Null
        THEN [t |-> T, it |-> iumap_end(T), inserted |-> FALSE]
      ELSE IF T.v_[slot].state \in {"unused", "tombstone"}
        THEN [t |-> [v_ |-> [T.v_ EXCEPT ![slot] =
                               [state |-> "occupied", key |-> key, mapped |-> mapped]],
                     size_ |-> IF T.v_[slot].state = "tombstone"
                                 THEN T.size_ ELSE T.size_ + 1,
                     tombstones_ |-> IF T.v_[slot].state = "tombstone"
                                       THEN T.tombstones_ - 1 ELSE T.tombstones_],
              it |-> slot, inserted |-> TRUE]
      ELSE [t |-> T, it |-> slot, inserted |-> FALSE]

\* iumap::try_emplace: [t: the table afterwards, it: the iterator, inserted].
iumap_try_emplace(T, key, mapped) ==
  LET slot == find_insert_slot(T, key)
  IN  IF slot = Null
        THEN [t |-> T, it |-> iumap_end(T), inserted |-> FALSE]
      ELSE IF T.v_[slot].state \in {"unused", "tombstone"}
        THEN [t |-> [v_ |-> [T.v_ EXCEPT ![slot] =
                               [state |-> "occupied", key |-> key, mapped |-> mapped]],
                     size_ |-> T.size_ + 1,
                     tombstones_ |-> IF T.v_[slot].state = "tombstone"
                                       THEN T.tombstones_ - 1 ELSE T.tombstones_],
              it |-> slot, inserted |-> TRUE]
      ELSE [t |-> T, it |-> slot, inserted |-> FALSE]

\* iumap::insert
iumap_insert(T, key, mapped) == iumap_try_emplace(T, key, mapped)

\* Mutation of insert_or_assign: an existing value is left as it is.
iumap_insert_or_assign_keeps(T, key, value) == iumap_try_emplace(T, key, value)

\* iumap::insert_or_assign: [t: the table afterwards, it: the iterator,
\* inserted].
iumap_insert_or_assign(T, key, value) ==
  LET slot == find_insert_slot(T, key)
  IN  IF slot = Null
        THEN [t |-> T, it |-> iumap_end(T), inserted |-> FALSE]
      ELSE IF T.v_[slot].state \in {"unused", "tombstone"}
        THEN [t |-> [v_ |-> [T.v_ EXCEPT ![slot] =
                               [state |-> "occupied", key |-> key, mapped |-> value]],
                     size_ |-> T.size_ + 1,
                     tombstones_ |-> IF T.v_[slot].state = "tombstone"
                                       THEN T.tombstones_ - 1 ELSE T.tombstones_],
              it |-> slot, inserted |-> TRUE]
      ELSE [t |-> [T EXCEPT !.v_[slot].mapped = value], it |-> slot, inserted |-> FALSE]

\* Mutation of erase: size_ is not decremented.
iumap_erase_keeps_size(T, pos) ==
  IF T.v_[pos].state = "occupied"
    THEN [t |-> [T EXCEPT !.v_[pos] = [state |-> "tombstone", key |-> NoKey, mapped |-> Null],
                          !.tombstones_ = @ + 1],
          it |-> move_forward_to_occupied(T, pos + 1)]
    ELSE [t |-> T, it |-> move_forward_to_occupied(T, pos + 1)]

\* Mutation of erase: the slot is reset to unused instead of a tombstone.
iumap_erase_leaves_unused(T, pos) ==
  IF T.v_[pos].state = "occupied"
    THEN [t |-> [T EXCEPT !.v_[pos] = unused_member, !.size_ = @ - 1],
          it |-> move_forward_to_occupied(T, pos + 1)]
    ELSE [t |-> T, it |-> move_forward_to_occupied(T, pos + 1)]

\* Mutation of erase: tombstones_ is not incremented.
iumap_erase_uncounted_tombstone(T, pos) ==
  LET erased == [v_ |-> [T.v_ EXCEPT ![pos] =
                           [state |-> "tombstone", key |-> NoKey, mapped |-> Null]],
                 size_ |-> T.size_ - 1,
                 tombstones_ |-> T.tombstones_]
  IN  IF T.v_[pos].state = "occupied"
        THEN [t |-> IF erased.size_ = 0 THEN iumap_clear(erased) ELSE erased,
              it |-> move_forward_to_occupied(T, pos + 1)]
        ELSE [t |-> T, it |-> move_forward_to_occupied(T, pos + 1)]

\* Mutation of erase: the table is not reset when its last entry goes.
iumap_erase_no_reset(T, pos) ==
  IF T.v_[pos].state = "occupied"
    THEN [t |-> [v_ |-> [T.v_ EXCEPT ![pos] =
                           [state |-> "tombstone", key |-> NoKey, mapped |-> Null]],
                 size_ |-> T.size_ - 1,
                 tombstones_ |-> T.tombstones_ + 1],
          it |-> move_forward_to_occupied(T, pos + 1)]
    ELSE [t |-> T, it |-> move_forward_to_occupied(T, pos + 1)]

\* Mutation of erase: the iterator returned is the slot after the erased one,
\* whatever its state.
iumap_erase_returns_next_slot(T, pos) ==
  LET erased == iumap_erase_no_reset(T, pos).t
  IN  [t |-> IF erased.size_ = 0 THEN iumap_clear(erased) ELSE erased,
       it |-> pos + 1]

\* iumap::erase: [t: the table afterwards, it: the returned iterator].
iumap_erase(T, pos) ==
  LET result == move_forward_to_occupied(T, pos + 1)
      erased == [v_ |-> [T.v_ EXCEPT ![pos] =
                           [state |-> "tombstone", key |-> NoKey, mapped |-> Null]],
                 size_ |-> T.size_ - 1,
                 tombstones_ |-> T.tombstones_ + 1]
  IN  IF T.v_[pos].state = "occupied"
        THEN [t |-> IF erased.size_ = 0 THEN iumap_clear(erased) ELSE erased,
              it |-> result]
        ELSE [t |-> T, it |-> result]

\* The loop of ctor from slot i on: self is the table under construction.
RECURSIVE ctor_from(_, _, _)
ctor_from(self, other, i) ==
  IF i >= iumap_capacity(self) THEN self
  ELSE LET in == other.v_[i]
           entry == IF in.state = "occupied"
                      THEN [state |-> "occupied", key |-> in.key, mapped |-> in.mapped]
                      ELSE [self.v_[i] EXCEPT !.state = in.state]
       IN  ctor_from([v_ |-> [self.v_ EXCEPT ![i] = entry],
                      size_ |-> IF in.state = "occupied" THEN self.size_ + 1 ELSE self.size_,
                      tombstones_ |-> IF in.state = "tombstone" THEN self.tombstones_ + 1
                                      ELSE self.tombstones_],
                     other, i + 1)

\* iumap(iumap const &) and iumap(iumap &&): the members take their default
\* values, then ctor copies other slot by slot. With int keys and values a
\* move is a copy.
iumap_ctor(other) == ctor_from(iumap_new(iumap_capacity(other)), other, 0)

\* One pass of the loop of assign: slot entry of the destination, whose
\* counters are size and tombstones, takes slot in of the source.
assign_slot(entry, in, size, tombstones) ==
  LET destroyed == [state |-> entry.state, key |-> NoKey, mapped |-> Null]
  IN  IF in.state = "occupied"
        THEN [entry |-> [state |-> "occupied", key |-> in.key, mapped |-> in.mapped],
              size_ |-> IF entry.state = "occupied" THEN (size - 1) + 1 ELSE size + 1,
              tombstones_ |-> IF entry.state = "tombstone" THEN tombstones - 1 ELSE tombstones]
      ELSE IF in.state = "tombstone"
        THEN [entry |-> [(IF entry.state = "occupied" THEN destroyed ELSE entry)
                           EXCEPT !.state = "tombstone"],
              size_ |-> IF entry.state = "occupied" THEN size - 1 ELSE size,
              tombstones_ |-> IF entry.state # "tombstone" THEN tombstones + 1 ELSE tombstones]
      ELSE [entry |-> [(IF entry.state = "occupied" THEN destroyed ELSE entry)
                         EXCEPT !.state = "unused"],
            size_ |-> IF entry.state = "occupied" THEN size - 1 ELSE size,
            tombstones_ |-> IF entry.state = "tombstone" THEN tombstones - 1 ELSE tombstones]

\* Mutation of assign: a pair constructed over a tombstone leaves the
\* tombstone counted.
RECURSIVE assign_from_keeps_tombstone(_, _, _)
assign_from_keeps_tombstone(self, other, i) ==
  IF i >= iumap_capacity(self) THEN self
  ELSE LET r == assign_slot(self.v_[i], other.v_[i], self.size_, self.tombstones_)
       IN  assign_from_keeps_tombstone(
             [v_ |-> [self.v_ EXCEPT ![i] = r.entry],
              size_ |-> r.size_,
              tombstones_ |-> IF other.v_[i].state = "occupied" THEN self.tombstones_
                              ELSE r.tombstones_],
             other, i + 1)

\* The loop of assign from slot i on.
RECURSIVE assign_from(_, _, _)
assign_from(self, other, i) ==
  IF i >= iumap_capacity(self) THEN self
  ELSE LET r == assign_slot(self.v_[i], other.v_[i], self.size_, self.tombstones_)
       IN  assign_from([v_ |-> [self.v_ EXCEPT ![i] = r.entry],
                        size_ |-> r.size_, tombstones_ |-> r.tombstones_],
                       other, i + 1)

\* operator=(iumap const &) and operator=(iumap &&). aliased: other is *this.
iumap_assign(self, other, aliased) ==
  IF aliased THEN self ELSE assign_from(self, other, 0)

\* ---------------------------------------------------------------- lru_list
no_payload == [first |-> NoKey, second |-> NoValue]
fresh_node == [payload |-> no_payload, prev |-> Null, next |-> Null]

\* A default-constructed lru_list<.., Size>.
lru_new(Size) ==
  [v_ |-> [i \in 0..(Size - 1) |-> fresh_node], first_ |-> Null, last_ |-> Null, size_ |-> 0]

\* Mutation of clear: last_ is left as it was.
lru_clear_keeps_last(L) ==
  [v_ |-> [i \in DOMAIN L.v_ |->
             IF i < L.size_ THEN [L.v_[i] EXCEPT !.payload = no_payload] ELSE L.v_[i]],
   first_ |-> Null, last_ |-> L.last_, size_ |-> 0]

\* lru_list::clear: the payloads of the size_ claimed nodes are destroyed; the
\* links of the nodes are left as they are.
lru_clear(L) ==
  [v_ |-> [i \in DOMAIN L.v_ |->
             IF i < L.size_ THEN [L.v_[i] EXCEPT !.payload = no_payload] ELSE L.v_[i]],
   first_ |-> Null, last_ |-> Null, size_ |-> 0]

\* Mutation of touch: the successor of the node keeps pointing back at it.
lru_touch_skips_back_link(L, n) ==
  IF L.first_ = n THEN L
  ELSE
    LET last1 == IF L.last_ = n THEN L.v_[n].prev ELSE L.last_
        np == L.v_[n].prev
        nn == L.v_[n].next
        v2 == IF np # Null THEN [L.v_ EXCEPT ![np].next = nn] ELSE L.v_
        v3 == [v2 EXCEPT ![n].prev = Null, ![n].next = L.first_]
        v4 == [v3 EXCEPT ![L.first_].prev = n]
    IN  [v_ |-> v4, first_ |-> n, last_ |-> last1, size_ |-> L.size_]

\* Mutation of touch: last_ is not moved when the tail is touched.
lru_touch_keeps_last(L, n) ==
  IF L.first_ = n THEN L
  ELSE
    LET np == L.v_[n].prev
        nn == L.v_[n].next
        v1 == IF nn # Null THEN [L.v_ EXCEPT ![nn].prev = np] ELSE L.v_
        v2 == IF np # Null THEN [v1 EXCEPT ![np].next = nn] ELSE v1
        v3 == [v2 EXCEPT ![n].prev = Null, ![n].next = L.first_]
        v4 == [v3 EXCEPT ![L.first_].prev = n]
    IN  [v_ |-> v4, first_ |-> n, last_ |-> L.last_, size_ |-> L.size_]

\* Mutation of touch: the node keeps its old successor.
lru_touch_keeps_next(L, n) ==
  IF L.first_ = n THEN L
  ELSE
    LET last1 == IF L.last_ = n THEN L.v_[n].prev ELSE L.last_
        np == L.v_[n].prev
        nn == L.v_[n].next
        v1 == IF nn # Null THEN [L.v_ EXCEPT ![nn].prev = np] ELSE L.v_
        v2 == IF np # Null THEN [v1 EXCEPT ![np].next = nn] ELSE v1
        v3 == [v2 EXCEPT ![n].prev = Null]
        v4 == [v3 EXCEPT ![L.first_].prev = n]
    IN  [v_ |-> v4, first_ |-> n, last_ |-> last1, size_ |-> L.size_]

\* Mutation of touch: the node is not moved.
lru_touch_noop(L, n) == L

\* lru_list::touch
lru_touch(L, n) ==
  IF L.first_ = n THEN L
  ELSE
    LET last1 == IF L.last_ = n THEN L.v_[n].prev ELSE L.last_
        np == L.v_[n].prev
        nn == L.v_[n].next
        v1 == IF nn # Null THEN [L.v_ EXCEPT ![nn].prev = np] ELSE L.v_
        v2 == IF np # Null THEN [v1 EXCEPT ![np].next = nn] ELSE v1
        v3 == [v2 EXCEPT ![n].prev = Null, ![n].next = L.first_]
        v4 == [v3 EXCEPT ![L.first_].prev = n]
    IN  [v_ |-> v4, first_ |-> n, last_ |-> last1, size_ |-> L.size_]

\* The tail of add, common to both branches: link result at the front.
lru_push_front(v, first, last, size, result) ==
  LET v1 == [v EXCEPT ![result].prev = Null, ![result].next = first]
      v2 == IF first # Null THEN [v1 EXCEPT ![first].prev = result] ELSE v1
  IN  [v_ |-> v2, first_ |-> result, last_ |-> last, size_ |-> size]

\* Mutation of add: below capacity last_ is set to the new node every time.
lru_add_tail_follows_head(L, payload) ==
  IF L.size_ < Cardinality(DOMAIN L.v_)
    THEN LET result == L.size_
             v1 == [L.v_ EXCEPT ![result].payload = payload]
         IN  [l |-> lru_push_front(v1, L.first_, result, L.size_ + 1, result),
              node |-> result, evicted |-> <<>>]
    ELSE LET result == L.last_
             old == L.v_[result].payload
             v1 == [L.v_ EXCEPT ![result].payload = payload]
             last1 == L.v_[result].prev
             v2 == IF last1 # Null THEN [v1 EXCEPT ![last1].next = Null] ELSE v1
         IN  [l |-> lru_push_front(v2, L.first_, last1, L.size_, result),
              node |-> result, evicted |-> <<old>>]

\* Mutation of add: first_ keeps pointing at the old head of a list that has
\* one.
lru_add_keeps_first(L, payload) ==
  LET keep(l) == IF L.first_ # Null THEN [l EXCEPT !.first_ = L.first_] ELSE l
  IN  IF L.size_ < Cardinality(DOMAIN L.v_)
        THEN LET result == L.size_
                 v1 == [L.v_ EXCEPT ![result].payload = payload]
                 last1 == IF L.last_ = Null THEN result ELSE L.last_
             IN  [l |-> keep(lru_push_front(v1, L.first_, last1, L.size_ + 1, result)),
                  node |-> result, evicted |-> <<>>]
        ELSE LET result == L.last_
                 old == L.v_[result].payload
                 v1 == [L.v_ EXCEPT ![result].payload = payload]
                 last1 == L.v_[result].prev
                 v2 == [v1 EXCEPT ![last1].next = Null]
             IN  [l |-> keep(lru_push_front(v2, L.first_, last1, L.size_, result)),
                  node |-> result, evicted |-> <<old>>]

\* Mutation of add: at capacity the evictor is called after the payload of the
\* tail node was overwritten.
lru_add_evicts_late(L, payload) ==
  IF L.size_ < Cardinality(DOMAIN L.v_)
    THEN LET result == L.size_
             v1 == [L.v_ EXCEPT ![result].payload = payload]
             last1 == IF L.last_ = Null THEN result ELSE L.last_
         IN  [l |-> lru_push_front(v1, L.first_, last1, L.size_ + 1, result),
              node |-> result, evicted |-> <<>>]
    ELSE LET result == L.last_
             v1 == [L.v_ EXCEPT ![result].payload = payload]
             last1 == L.v_[result].prev
             v2 == [v1 EXCEPT ![last1].next = Null]
         IN  [l |-> lru_push_front(v2, L.first_, last1, L.size_, result),
              node |-> result, evicted |-> <<v1[result].payload>>]

\* lru_list::add: [l: the list afterwards, node: the returned node,
\* evicted: the payloads the evictor was called with, in order].
lru_add(L, payload) ==
  IF L.size_ < Cardinality(DOMAIN L.v_)
    THEN LET result == L.size_
             v1 == [L.v_ EXCEPT ![result].payload = payload]
             last1 == IF L.last_ = Null THEN result ELSE L.last_
         IN  [l |-> lru_push_front(v1, L.first_, last1, L.size_ + 1, result),
              node |-> result, evicted |-> <<>>]
    ELSE LET result == L.last_
             old == L.v_[result].payload
             v1 == [L.v_ EXCEPT ![result].payload = payload]
             last1 == L.v_[result].prev
             v2 == [v1 EXCEPT ![last1].next = Null]
         IN  [l |-> lru_push_front(v2, L.first_, last1, L.size_, result),
              node |-> result, evicted |-> <<old>>]

\* lru_list::add as the set of its outcomes. At capacity add runs
\*   last_ = result->prev; last_->next = nullptr;
\* and when the tail node has no predecessor (the one node of a list of Size 1)
\* the second statement writes through a null pointer, which is undefined
\* behaviour. Two outcomes of a build are kept: the write faults ("crash": the
\* list is left as it was at the write, the payload replaced and last_ null,
\* and add does not return), or the write is lost and add runs to its end
\* ("lost_write"; check_invariants then aborts a build with assertions on).
lru_add_outcomes(L, payload) ==
  IF L.size_ >= Cardinality(DOMAIN L.v_) /\ L.v_[L.last_].prev = Null
    THEN {[l |-> [L EXCEPT !.v_[L.last_].payload = payload, !.last_ = Null],
           node |-> Null, evicted |-> <<L.v_[L.last_].payload>>, ub |-> "crash"],
          [l |-> lru_add(L, payload).l, node |-> lru_add(L, payload).node,
           evicted |-> lru_add(L, payload).evicted, ub |-> "lost_write"]}
    ELSE {[l |-> lru_add(L, payload).l, node |-> lru_add(L, payload).node,
           evicted |-> lru_add(L, payload).evicted, ub |-> "none"]}

\* ------------------------------------------------------ reference list
\* A most-recent-first sequence of entries [node, payload]: add puts a new
\* entry at the front, under the next unused handle while there are fewer than
\* Size entries, and otherwise in place of the last entry, whose payload is
\* dropped and whose handle it takes over.
SeqAdd(a, Size, payload) ==
  IF Len(a.seq) < Size
    THEN [a EXCEPT !.seq = <<[node |-> Len(a.seq), payload |-> payload]>> \o a.seq,
                   !.dropped = <<>>]
    ELSE LET old == a.seq[Len(a.seq)]
         IN  [seq |-> <<[node |-> old.node, payload |-> payload]>>
                        \o SubSeq(a.seq, 1, Len(a.seq) - 1),
              dropped |-> <<old.payload>>,
              stale |-> old]

\* touch moves the entry that now goes under handle n to the front.
SeqTouch(a, n) ==
  LET at == CHOOSE i \in DOMAIN a.seq : a.seq[i].node = n
  IN  [a EXCEPT !.seq = <<a.seq[at]>> \o SubSeq(a.seq, 1, at - 1)
                          \o SubSeq(a.seq, at + 1, Len(a.seq)),
                !.dropped = <<>>]

\* ------------------------------------------------------------------- cache
\* Mutation of the evictor: the evicted key stays in the table.
evictor_noop(T, kvp) == T

\* Mutation of the evictor: the first entry of the table is erased, whatever
\* its key.
evictor_erases_begin(T, kvp) ==
  IF iumap_begin(T) # iumap_end(T) THEN iumap_erase(T, iumap_begin(T)).t ELSE T

\* The evictor lambda of cache::set: erase the evicted key from the table.
evictor(T, kvp) ==
  LET pos == iumap_find(T, kvp.first)
  IN  IF pos # iumap_end(T) THEN iumap_erase(T, pos).t ELSE T

\* cache::find: [h, lru: the members afterwards, ptr: the value pointed to by
\* the returned pointer, NoValue for nullptr].
cache_find(C, k) ==
  LET pos == iumap_find(C.h, k)
      node == C.h.v_[pos].mapped
      l1 == lru_touch(C.lru, node)
  IN  IF pos = iumap_end(C.h)
        THEN [h |-> C.h, lru |-> C.lru, ptr |-> NoValue]
        ELSE [h |-> C.h, lru |-> l1, ptr |-> l1.v_[node].payload.second]

\* Mutation of set: on a hit the value is assigned before it is compared.
cache_set_assign_first(C, k, v) ==
  LET pos == iumap_find(C.h, k)
      added == lru_add(C.lru, [first |-> k, second |-> v])
      h1 == IF added.evicted = <<>> THEN C.h ELSE evictor(C.h, added.evicted[1])
      h2 == iumap_insert(h1, k, added.node).t
      node == C.h.v_[pos].mapped
      l1 == lru_touch(C.lru, node)
  IN  IF pos = iumap_end(C.h)
        THEN [h |-> h2, lru |-> added.l, ret |-> FALSE, evicted |-> added.evicted]
        ELSE [h |-> C.h, lru |-> [l1 EXCEPT !.v_[node].payload.second = v],
              ret |-> TRUE, evicted |-> <<>>]

\* Mutation of set: on a hit with another value the new value is not stored.
cache_set_drops_update(C, k, v) ==
  LET pos == iumap_find(C.h, k)
      added == lru_add(C.lru, [first |-> k, second |-> v])
      h1 == IF added.evicted = <<>> THEN C.h ELSE evictor(C.h, added.evicted[1])
      h2 == iumap_insert(h1, k, added.node).t
      node == C.h.v_[pos].mapped
      l1 == lru_touch(C.lru, node)
  IN  IF pos = iumap_end(C.h)
        THEN [h |-> h2, lru |-> added.l, ret |-> FALSE, evicted |-> added.evicted]
        ELSE [h |-> C.h, lru |-> l1, ret |-> (v = l1.v_[node].payload.second),
              evicted |-> <<>>]

\* Mutation of set: the node is moved to the head only when the value changes.
cache_set_true_skips_touch(C, k, v) ==
  LET pos == iumap_find(C.h, k)
      added == lru_add(C.lru, [first |-> k, second |-> v])
      h1 == IF added.evicted = <<>> THEN C.h ELSE evictor(C.h, added.evicted[1])
      h2 == iumap_insert(h1, k, added.node).t
      node == C.h.v_[pos].mapped
      l1 == lru_touch(C.lru, node)
  IN  IF pos = iumap_end(C.h)
        THEN [h |-> h2, lru |-> added.l, ret |-> FALSE, evicted |-> added.evicted]
      ELSE IF v = C.lru.v_[node].payload.second
        THEN [h |-> C.h, lru |-> C.lru, ret |-> TRUE, evicted |-> <<>>]
      ELSE [h |-> C.h, lru |-> [l1 EXCEPT !.v_[node].payload.second = v],
            ret |-> FALSE, evicted |-> <<>>]

\* Mutation of set: a cached key whose value changes is added as a new entry.
cache_set_update_adds(C, k, v) ==
  LET pos == iumap_find(C.h, k)
      added == lru_add(C.lru, [first |-> k, second |-> v])
      h1 == IF added.evicted = <<>> THEN C.h ELSE evictor(C.h, added.evicted[1])
      h2 == iumap_insert_or_assign(h1, k, added.node).t
      node == C.h.v_[pos].mapped
      l1 == lru_touch(C.lru, node)
  IN  IF pos # iumap_end(C.h) /\ v = l1.v_[node].payload.second
        THEN [h |-> C.h, lru |-> l1, ret |-> TRUE, evicted |-> <<>>]
        ELSE [h |-> h2, lru |-> added.l, ret |-> FALSE, evicted |-> added.evicted]

\* The miss path of cache::set, step by step: lru.add calls the evictor (found:
\* where the evictor's find locates the evicted key, h1: the table after the
\* evictor), then reuses or claims a node (added), then h.insert stores the key
\* with that node (ins: what insert returns, which set ignores).
cache_set_miss(C, k, v) ==
  LET added == lru_add(C.lru, [first |-> k, second |-> v])
      found == IF added.evicted = <<>> THEN iumap_end(C.h)
               ELSE iumap_find(C.h, added.evicted[1].first)
      h1 == IF added.evicted = <<>> THEN C.h ELSE evictor(C.h, added.evicted[1])
  IN  [added |-> added, found |-> found, h1 |-> h1, ins |-> iumap_insert(h1, k, added.node)]

\* cache::set: [h, lru: the members afterwards, ret: the returned bool,
\* evicted: the payloads handed to the evictor].
cache_set(C, k, v) ==
  LET pos == iumap_find(C.h, k)
      added == lru_add(C.lru, [first |-> k, second |-> v])
      h1 == IF added.evicted = <<>> THEN C.h ELSE evictor(C.h, added.evicted[1])
      h2 == iumap_insert(h1, k, added.node).t
      node == C.h.v_[pos].mapped
      l1 == lru_touch(C.lru, node)
      cached_value == l1.v_[node].payload.second
  IN  IF pos = iumap_end(C.h)
        THEN [h |-> h2, lru |-> added.l, ret |-> FALSE, evicted |-> added.evicted]
      ELSE IF v = cached_value
        THEN [h |-> C.h, lru |-> l1, ret |-> TRUE, evicted |-> <<>>]
      ELSE [h |-> C.h, lru |-> [l1 EXCEPT !.v_[node].payload.second = v],
            ret |-> FALSE, evicted |-> <<>>]

\* ------------------------------------------------------------ observers
\* What c.find(k) returns in the state (T, L): the value found, or NoValue.
FindResult(T, L, k) == cache_find([h |-> T, lru |-> L], k).ptr

OccupiedSlots(T) == {i \in DOMAIN T.v_ : T.v_[i].state = "occupied"}

\* The keys held by occupied slots, read off the slot array without probing.
CachedKeys(T) == {T.v_[i].key : i \in OccupiedSlots(T)}

\* The <<key, value>> pairs of the cache, read through the table's slots.
Entries(T, L) ==
  {<<T.v_[i].key, L.v_[T.v_[i].mapped].payload.second>> : i \in OccupiedSlots(T)}

\* The nodes met walking next from first_ (at most one visit per array node).
RECURSIVE chain_from(_, _, _)
chain_from(L, n, fuel) ==
  IF n = Null \/ fuel = 0 THEN <<>>
  ELSE <<n>> \o chain_from(L, L.v_[n].next, fuel - 1)

Chain(L) == chain_from(L, L.first_, Cardinality(DOMAIN L.v_))

ChainNodes(L) == {Chain(L)[i] : i \in DOMAIN Chain(L)}

\* Seq without its element x.
RECURSIVE Without(_, _)
Without(seq, x) ==
  IF seq = <<>> THEN <<>>
  ELSE IF Head(seq) = x THEN Without(Tail(seq), x)
  ELSE <<Head(seq)>> \o Without(Tail(seq), x)

\* The payloads of the list, head (MRU) first.
Payloads(L) == [i \in DOMAIN Chain(L) |-> L.v_[Chain(L)[i]].payload]

\* --------------------------------------------------- reference LRU map
\* A most-recent-first sequence of <<key, value>> pairs with distinct keys.
AbsKeys(a) == {a[i][1] : i \in DOMAIN a}

AbsValue(a, k) ==
  IF k \in AbsKeys(a) THEN a[CHOOSE i \in DOMAIN a : a[i][1] = k][2] ELSE NoValue

AbsRemove(a, k) == SelectSeq(a, LAMBDA e : e[1] # k)

\* find: a hit moves the key to the front.
AbsFind(a, k) ==
  IF k \in AbsKeys(a)
    THEN [abs |-> <<<<k, AbsValue(a, k)>>>> \o AbsRemove(a, k),
          ptr |-> AbsValue(a, k), ret |-> FALSE]
    ELSE [abs |-> a, ptr |-> NoValue, ret |-> FALSE]

\* set: the key moves to the front; an absent key at capacity drops the last.
AbsSet(a, Size, k, v) ==
  IF k \in AbsKeys(a)
    THEN [abs |-> <<<<k, v>>>> \o AbsRemove(a, k),
          ptr |-> NoValue, ret |-> (AbsValue(a, k) = v)]
    ELSE [abs |-> <<<<k, v>>>> \o (IF Len(a) = Size THEN SubSeq(a, 1, Len(a) - 1) ELSE a),
          ptr |-> NoValue, ret |-> FALSE]

\* ------------------------------------------------------------ state machine
tablevars == <<tab, ref, tcall, tab2, probe>>

listvars == <<lst, lcall, labs>>

vars == <<cap, watch, h, lru, call, evicted, abs, written, fill, promo, tab, ref, tcall,
          tab2, probe, lst, lcall, labs>>

NoCall == [op |-> "none", key |-> NoKey, ptr |-> NoValue, ret |-> FALSE, hit |-> FALSE]

PromoOff == [on |-> FALSE, key |-> NoKey, val |-> NoValue,
             others |-> <<>>, sets |-> 0, evictions |-> <<>>]

\* A default-constructed cache of one of the capacities, its calls recorded
\* or not.
InitCache(capacities, recording) ==
  /\ cap \in capacities
  /\ watch = recording
  /\ h = iumap_new(cap)
  /\ lru = lru_new(cap)
  /\ call = NoCall
  /\ evicted = NoKey
  /\ abs = <<>>
  /\ written = [k \in Keys(cap) |-> NoValue]
  /\ fill = [on |-> TRUE, kv |-> <<>>]
  /\ promo = PromoOff

\* No probing loop is under way.
NoProbe == [size |-> 0, pos |-> 0, iteration |-> 0, seen |-> <<>>]

NoTableCall == [op |-> "none", key |-> NoKey, val |-> NoValue, old |-> NoValue,
                it |-> Null, inserted |-> FALSE, fwd |-> <<>>, bwd |-> <<>>,
                n |-> 0, before |-> [size_ |-> 0, tombstones_ |-> 0]]

\* A default-constructed table of the cache's Size, beside the cache.
InitTable ==
  /\ tab = iumap_new(cap)
  /\ ref = [on |-> TRUE, map |-> [k \in Keys(cap) |-> NoValue]]
  /\ tcall = NoTableCall
  /\ tab2 = iumap_new(cap)
  /\ probe = NoProbe

NoListCall == [op |-> "none", node |-> Null, payload |-> no_payload,
               evicted |-> <<>>, size |-> 0, first |-> Null, last |-> Null,
               ub |-> "none"]

\* The reference list of a default-constructed list of Size nodes.
SeqNew(Size) == [seq |-> <<>>, dropped |-> <<>>, stale |-> [node |-> Null, payload |-> no_payload]]

\* A default-constructed list of the cache's Size, beside the cache.
InitList ==
  /\ lst = lru_new(cap)
  /\ lcall = NoListCall
  /\ labs = SeqNew(cap)

\* The capacity-2 cache, each call recorded.
Init == InitCache({SmallSize}, TRUE) /\ InitTable /\ InitList

\* The caches of both capacities. No call is recorded: the record multiplies
\* the states of the capacity-4 cache beyond what can be explored.
InitSizes == InitCache(Sizes, FALSE) /\ InitTable /\ InitList

\* The keys of the payloads the evictor was called with.
EvictedKeys(c) == [i \in DOMAIN c.evicted |-> c.evicted[i].first]

\* The scenario tracker. It starts when a cache that was filled by Size sets of
\* distinct keys and nothing else is asked to find its LRU entry, and follows
\* the next Size - 1 sets of keys that are not cached at the time.
TrackPromo(c) ==
  IF /\ c.op = "find"
     /\ fill.on /\ Len(fill.kv) = cap
     /\ Len(abs) = cap /\ abs[cap][1] = c.key
    THEN [on |-> TRUE, key |-> c.key, val |-> abs[cap][2],
          others |-> [i \in 1..(cap - 1) |-> abs[cap - i][1]],
          sets |-> 0, evictions |-> <<>>]
  ELSE IF /\ promo.on
          /\ promo.sets < cap - 1
          /\ c.op = "set"
          /\ c.key \notin CachedKeys(h)
    THEN [promo EXCEPT !.sets = @ + 1, !.evictions = @ \o EvictedKeys(c)]
  ELSE PromoOff

\* The history of a call c, whose effect on the reference map is a.
Record(c, a) ==
  /\ call' = IF watch THEN [op |-> c.op, key |-> c.key, ptr |-> c.ptr, ret |-> c.ret,
                             hit |-> c.key \in CachedKeys(h)]
             ELSE call
  /\ evicted' = IF c.evicted # <<>> THEN c.evicted[Len(c.evicted)].first ELSE evicted
  /\ abs' = a.abs
  /\ written' = [k \in DOMAIN written |->
                   IF c.op = "set" /\ k = c.key THEN c.val
                   ELSE IF \E i \in DOMAIN c.evicted : c.evicted[i].first = k THEN NoValue
                   ELSE written[k]]
  /\ fill' = IF /\ fill.on
                /\ c.op = "set"
                /\ Len(fill.kv) <= cap
                /\ \A i \in DOMAIN fill.kv : fill.kv[i][1] # c.key
               THEN [on |-> TRUE, kv |-> Append(fill.kv, <<c.key, c.val>>)]
               ELSE [on |-> FALSE, kv |-> <<>>]
  /\ promo' = TrackPromo(c)

\* c.find(k)
Find(k) ==
  \E r \in {cache_find([h |-> h, lru |-> lru], k)} :
    \E c \in {[op |-> "find", key |-> k, val |-> NoValue,
                ptr |-> r.ptr, ret |-> FALSE, evicted |-> <<>>]},
       a \in {AbsFind(abs, k)} :
      /\ h' = r.h
      /\ lru' = r.lru
      /\ Record(c, a)
      /\ UNCHANGED <<cap, watch>>
      /\ UNCHANGED tablevars
      /\ UNCHANGED listvars

\* c.set(k, v)
Set(k, v) ==
  \E r \in {cache_set([h |-> h, lru |-> lru], k, v)} :
    \E c \in {[op |-> "set", key |-> k, val |-> v,
                ptr |-> NoValue, ret |-> r.ret, evicted |-> r.evicted]},
       a \in {AbsSet(abs, cap, k, v)} :
      /\ h' = r.h
      /\ lru' = r.lru
      /\ Record(c, a)
      /\ UNCHANGED <<cap, watch>>
      /\ UNCHANGED tablevars
      /\ UNCHANGED listvars

Next ==
  \/ \E k \in Keys(cap) : Find(k)
  \/ \E k \in Keys(cap), v \in Values(cap) : Set(k, v)

Spec == Init /\ [][Next]_vars

SpecSizes == InitSizes /\ [][Next]_vars

\* The cache as the calls below see it.
Cache == [h |-> h, lru |-> lru]

\* Every outcome of n successive sets of keys that are not cached when they
\* are set, from C on: the cache reached and the keys handed to the evictor (ev
\* holds those of the sets already made).
RECURSIVE Overflows(_, _, _)
Overflows(C, n, ev) ==
  IF n = 0 THEN {[h |-> C.h, lru |-> C.lru, evictions |-> ev]}
  ELSE UNION { UNION { Overflows([h |-> r.h, lru |-> r.lru], n - 1,
                                 ev \o [i \in DOMAIN r.evicted |-> r.evicted[i].first])
                       : r \in {cache_set(C, k, v)} }
               : k \in Keys(cap) \ CachedKeys(C.h), v \in Values(cap) }

\* ------------------------------------------------------------------ claims
\* C1: after every find and set, from an empty cache, the table's live count
\* (h.size_) equals the list's live count (lru.size_).
C1_LiveCountsAgree == h.size_ = lru.size_

\* The capacity-4 cache has evicted, and both containers are full.
C1_Witness ==
  /\ cap = BigSize /\ evicted # NoKey
  /\ h.size_ = cap /\ lru.size_ = cap

\* C2: after every find and set, every occupied slot (k -> n) refers to a node
\* that is live (claimed and threaded into the chain) and stores key k.
C2_HandlesMatchNodes ==
  \A i \in OccupiedSlots(h) :
    /\ h.v_[i].mapped \in 0..(lru.size_ - 1)
    /\ h.v_[i].mapped \in ChainNodes(lru)
    /\ lru.v_[h.v_[i].mapped].payload.first = h.v_[i].key

\* Size + 1 distinct keys have been set: the last set evicted the first key
\* and reused its node, the first of the array. The slot of the last key
\* refers to that node, which now stores the last key and leads the list.
C2_Witness ==
  /\ fill.on /\ Len(fill.kv) = cap + 1
  /\ evicted = fill.kv[1][1]
  /\ \E i \in OccupiedSlots(h) :
       /\ h.v_[i].key = fill.kv[cap + 1][1]
       /\ h.v_[i].mapped = 0
       /\ lru.v_[0].payload.first = fill.kv[cap + 1][1]
       /\ lru.first_ = 0

\* C3: in every reachable state and for every k and v, set(k, v) returns true
\* exactly when (k, v) is an entry of the cache at the call (it returns false
\* for an absent key and for a key cached with another value), and the same
\* call made again at once returns true.
C3_SetReturn ==
  \A k \in Keys(cap), v \in Values(cap) :
    \A r \in {cache_set(Cache, k, v)} :
      /\ r.ret = (<<k, v>> \in Entries(h, lru))
      /\ cache_set([h |-> r.h, lru |-> r.lru], k, v).ret

\* set returned true in a full cache.
C3_Witness ==
  /\ call.op = "set" /\ call.ret
  /\ call.key \in CachedKeys(h)
  /\ lru.size_ = cap

\* C4: find(k) returns the value of the latest set(k, v), as long as k has
\* not been evicted since (written[k] is that value).
C4_FindReturnsLastSet ==
  \A k \in Keys(cap) :
    written[k] # NoValue => FindResult(h, lru, k) = written[k]

\* find returned the value last set for a key of a full cache.
C4_Witness ==
  /\ call.op = "find" /\ call.ptr # NoValue
  /\ call.ptr = written[call.key]
  /\ lru.size_ = cap

\* C5: after Size sets of Size distinct keys and one set of a further key, the
\* first key set is not found, and the other Size keys are found with their
\* values.
C5_FirstKeyEvicted ==
  fill.on /\ Len(fill.kv) = cap + 1 =>
    /\ FindResult(h, lru, fill.kv[1][1]) = NoValue
    /\ \A i \in 2..(cap + 1) : FindResult(h, lru, fill.kv[i][1]) = fill.kv[i][2]

\* The capacity-4 cache has been set with five distinct keys.
C5_Witness ==
  /\ cap = BigSize /\ fill.on /\ Len(fill.kv) = cap + 1
  /\ evicted = fill.kv[1][1]

\* C6: from every full cache, whose LRU entry is k1: find(k1) returns its
\* value, and after Size - 1 further sets of keys not cached at the time, k1 is
\* found with its value and the evictor was handed the other entries, least
\* recently used first. The tracked scenario, a run of the state machine, says
\* the same at each of its steps.
C6_PromotedKeySurvives ==
  /\ Len(abs) = cap =>
       LET k1 == abs[cap][1]
           v1 == abs[cap][2]
           others == [i \in 1..(cap - 1) |-> abs[cap - i][1]]
       IN  \A f \in {cache_find(Cache, k1)} :
             /\ f.ptr = v1
             /\ \A run \in Overflows([h |-> f.h, lru |-> f.lru], cap - 1, <<>>) :
                  /\ FindResult(run.h, run.lru, k1) = v1
                  /\ run.evictions = others
  /\ promo.on =>
       /\ FindResult(h, lru, promo.key) = promo.val
       /\ promo.evictions = SubSeq(promo.others, 1, promo.sets)

\* The scenario has run to its end in the capacity-4 cache.
C6_Witness ==
  /\ cap = BigSize /\ promo.on /\ promo.sets = cap - 1
  /\ Len(promo.evictions) = cap - 1

\* C7: in every reachable state the cache and the reference LRU map of the
\* same capacity, which has seen the same calls, return the same result for
\* every find and every set, so the same keys are found with the same values.
C7_RefinesLruMap ==
  /\ \A k \in Keys(cap) :
       cache_find(Cache, k).ptr = AbsFind(abs, k).ptr
  /\ \A k \in Keys(cap), v \in Values(cap) :
       cache_set(Cache, k, v).ret = AbsSet(abs, cap, k, v).ret

\* Both have evicted in the capacity-4 cache, after calls that were not all
\* sets of distinct keys: the key last handed to the evictor is not in the
\* reference map either.
C7_Witness ==
  /\ cap = BigSize /\ ~fill.on
  /\ evicted # NoKey
  /\ Len(abs) = cap
  /\ evicted \notin AbsKeys(abs)
  /\ written[evicted] = NoValue

\* C8: both live counts are at most the capacity in every reachable state.
C8_AtMostCapacity ==
  /\ h.size_ <= cap
  /\ lru.size_ <= cap
  /\ Cardinality(OccupiedSlots(h)) <= cap
  /\ Len(Chain(lru)) <= cap

\* More distinct keys than the capacity have been set.
C8_Witness ==
  /\ evicted # NoKey
  /\ evicted \notin CachedKeys(h)
  /\ Cardinality(CachedKeys(h) \cup {evicted}) > cap
  /\ lru.size_ = cap

\* C9: in every reachable state, find(k) of a key that no occupied slot holds
\* returns none and leaves the table and the list as they are.
C9_FindMissChangesNothing ==
  \A k \in Keys(cap) \ CachedKeys(h) :
    cache_find(Cache, k) = [h |-> h, lru |-> lru, ptr |-> NoValue]

\* find missed in a full cache.
C9_Witness ==
  /\ call.op = "find" /\ call.ptr = NoValue
  /\ call.key \notin CachedKeys(h)
  /\ lru.size_ = cap

\* C10: in every reachable state, when set(k, v) returns true, the cached
\* keys, the value of every key and both live counts are as before the call.
C10_SetTrueKeepsContents ==
  \A k \in Keys(cap), v \in Values(cap) :
    \A r \in {cache_set(Cache, k, v)} :
      r.ret =>
        /\ r.h = h
        /\ CachedKeys(r.h) = CachedKeys(h)
        /\ Entries(r.h, r.lru) = Entries(h, lru)
        /\ \A p \in {Payloads(r.lru)}, q \in {Payloads(lru)} :
             {p[i] : i \in DOMAIN p} = {q[i] : i \in DOMAIN q}
        /\ r.h.size_ = h.size_
        /\ r.lru.size_ = lru.size_

\* set returned true in a full cache for a key that was the tail or in the
\* middle: the key now leads the list.
C10_Witness ==
  /\ call.op = "set" /\ call.ret
  /\ lru.size_ = cap
  /\ lru.v_[lru.first_].payload.first = call.key
  /\ lru.v_[lru.last_].payload.first # call.key

\* The slot of h that holds k, a cached key.
SlotOf(T, k) == CHOOSE i \in OccupiedSlots(T) : T.v_[i].key = k

\* C29: set(k, v) on a cached key k leaves k's node at the head of the list,
\* holding v, whether the stored value equalled v (true is returned) or not
\* (false); when the cache is full, the Size - 1 sets of uncached keys that
\* follow evict the other entries, least recently used first, and k is still
\* found with v.
C29_SetHitPromotes ==
  \A k \in CachedKeys(h), v \in Values(cap) :
    \A r \in {cache_set(Cache, k, v)}, n \in {h.v_[SlotOf(h, k)].mapped} :
      /\ r.ret <=> lru.v_[n].payload.second = v
      /\ r.lru.first_ = n
      /\ r.lru.v_[n].payload = [first |-> k, second |-> v]
      /\ Len(abs) = cap =>
            \A others \in {Without([i \in 1..cap |-> abs[cap + 1 - i][1]], k)} :
              \A run \in Overflows([h |-> r.h, lru |-> r.lru], cap - 1, <<>>) :
                /\ run.evictions = others
                /\ FindResult(run.h, run.lru, k) = v

\* Reached: in a full cache that has evicted another key before, set changed
\* the value of a cached key (false was returned), and the key leads the list.
C29_Witness ==
  /\ call.op = "set" /\ call.hit /\ ~call.ret
  /\ lru.size_ = cap
  /\ evicted # NoKey /\ evicted # call.key
  /\ lru.v_[lru.first_].payload.first = call.key
  /\ lru.v_[lru.first_].prev = Null

\* C30: set(k, v) on a cached key k hands nothing to the evictor and leaves
\* the table, the cached keys, both live counts and every other node's payload
\* as they were, in a full cache too; k's node holds v.
C30_SetHitNeverEvicts ==
  \A k \in CachedKeys(h), v \in Values(cap) :
    \A r \in {cache_set(Cache, k, v)}, n \in {h.v_[SlotOf(h, k)].mapped} :
      /\ r.evicted = <<>>
      /\ r.h = h
      /\ CachedKeys(r.h) = CachedKeys(h)
      /\ r.lru.size_ = lru.size_
      /\ r.lru.v_[n].payload = [first |-> k, second |-> v]
      /\ \A i \in DOMAIN lru.v_ \ {n} : r.lru.v_[i].payload = lru.v_[i].payload
      /\ ChainNodes(r.lru) = ChainNodes(lru)

\* Reached: set changed the value of a cached key in a full cache: both keys
\* cached before the call are cached after it.
C30_Witness ==
  /\ call.op = "set" /\ call.hit /\ ~call.ret
  /\ lru.size_ = cap /\ h.size_ = cap
  /\ written[call.key] = lru.v_[lru.first_].payload.second
  /\ Cardinality({k \in Keys(cap) : written[k] # NoValue}) = cap

\* ------------------------------------------------- the table on its own
cachevars == <<cap, watch, h, lru, call, evicted, abs, written, fill, promo>>

TombstoneSlots(T) == {i \in DOMAIN T.v_ : T.v_[i].state = "tombstone"}

UnusedSlots(T) == {i \in DOMAIN T.v_ : T.v_[i].state = "unused"}

\* for (it = begin(); it != end(); ++it): the slots visited (at most fuel).
RECURSIVE walk_forward(_, _, _)
walk_forward(T, it, fuel) ==
  IF it = iumap_end(T) \/ fuel = 0 THEN <<>>
  ELSE <<it>> \o walk_forward(T, iterator_inc(T, it), fuel - 1)

Forward(T) == walk_forward(T, iumap_begin(T), iumap_capacity(T) + 1)

\* for (it = end(); it != begin();) { --it; ... }: the slots visited (at most
\* fuel).
RECURSIVE walk_backward(_, _, _)
walk_backward(T, it, fuel) ==
  IF it = iumap_begin(T) \/ fuel = 0 THEN <<>>
  ELSE <<iterator_dec(T, it)>> \o walk_backward(T, iterator_dec(T, it), fuel - 1)

Backward(T) == walk_backward(T, iumap_end(T), iumap_capacity(T) + 1)

\* The <<key, value>> pairs met iterating from begin() to end().
IteratedPairs(T) ==
  {<<T.v_[Forward(T)[i]].key, T.v_[Forward(T)[i]].mapped>> : i \in DOMAIN Forward(T)}

\* The reference map after insert or try_emplace (assign = FALSE) or
\* insert_or_assign (assign = TRUE) of (k, v). The reference map is unbounded:
\* it leaves step with a table that is asked to insert when it is full.
RefInsert(k, v, assign) ==
  IF ~ref.on THEN ref
  ELSE IF tab.size_ >= iumap_capacity(tab)
    THEN [on |-> FALSE, map |-> [x \in DOMAIN ref.map |-> NoValue]]
  ELSE [ref EXCEPT !.map[k] = IF assign \/ @ = NoValue THEN v ELSE @]

BeforeCall == [size_ |-> tab.size_, tombstones_ |-> tab.tombstones_]

\* The value an occupied slot of T holds for k, read off the slot array.
StoredValue(T, k) ==
  IF k \in CachedKeys(T)
    THEN T.v_[CHOOSE i \in OccupiedSlots(T) : T.v_[i].key = k].mapped
    ELSE NoValue

\* The call on tab that returned r, for op "insert", "try_emplace" or
\* "insert_or_assign".
TableInsertion(op, k, v, r) ==
  /\ tab' = r.t
  /\ tcall' = [op |-> op, key |-> k, val |-> v, old |-> StoredValue(tab, k),
               it |-> r.it, inserted |-> r.inserted,
               fwd |-> <<>>, bwd |-> <<>>, n |-> 0, before |-> BeforeCall]
  /\ ref' = RefInsert(k, v, op = "insert_or_assign")
  /\ UNCHANGED <<cachevars, listvars, probe, tab2>>

\* tab.insert({k, v})
TableInsert(k, v) ==
  \E r \in {iumap_insert(tab, k, v)} : TableInsertion("insert", k, v, r)

\* tab.try_emplace(k, v)
TableTryEmplace(k, v) ==
  \E r \in {iumap_try_emplace(tab, k, v)} : TableInsertion("try_emplace", k, v, r)

\* tab.insert_or_assign(k, v)
TableInsertOrAssign(k, v) ==
  \E r \in {iumap_insert_or_assign(tab, k, v)} : TableInsertion("insert_or_assign", k, v, r)

\* if (pos = tab.find(k); pos != tab.end()) tab.erase(pos)
TableErase(k) ==
  /\ iumap_find(tab, k) # iumap_end(tab)
  /\ \E r \in {iumap_erase(tab, iumap_find(tab, k))} :
       /\ tab' = r.t
       /\ tcall' = [NoTableCall EXCEPT !.op = "erase", !.key = k, !.it = r.it,
                                       !.before = BeforeCall]
  /\ ref' = IF ref.on THEN [ref EXCEPT !.map[k] = NoValue] ELSE ref
  /\ UNCHANGED <<cachevars, listvars, probe, tab2>>

\* tab.clear()
TableClear ==
  /\ tab' = iumap_clear(tab)
  /\ tcall' = [NoTableCall EXCEPT !.op = "clear", !.before = BeforeCall]
  /\ ref' = [on |-> TRUE, map |-> [x \in DOMAIN ref.map |-> NoValue]]
  /\ UNCHANGED <<cachevars, listvars, probe, tab2>>

\* tab.find(k)
TableFind(k) ==
  /\ \E r \in {iumap_find_call(tab, k)} :
       /\ tab' = r.t
       /\ tcall' = [NoTableCall EXCEPT !.op = "find", !.key = k, !.it = r.it,
                                       !.before = BeforeCall]
  /\ UNCHANGED <<ref, cachevars, listvars, probe, tab2>>

\* One pass over tab from begin() to end(), and one from end() back to begin().
TableIterate ==
  /\ tcall' = [NoTableCall EXCEPT !.op = "iterate", !.fwd = Forward(tab),
                                  !.bwd = Backward(tab), !.before = BeforeCall]
  /\ UNCHANGED <<tab, ref, cachevars, listvars, probe, tab2>>

\* pos = n >= 0 ? tab.begin() : tab.end(); pos += n; pos -= n, for an n that
\* keeps pos between begin() and end(). fwd holds the three positions.
TableSeek(n) ==
  /\ n <= tab.size_ /\ -n <= tab.size_
  /\ \E start \in {IF n >= 0 THEN iumap_begin(tab) ELSE iumap_end(tab)} :
       \E there \in {iterator_add_assign(tab, start, n)} :
         tcall' = [NoTableCall EXCEPT !.op = "seek", !.n = n, !.before = BeforeCall,
                     !.fwd = <<start, there, iterator_sub_assign(tab, there, n)>>]
  /\ UNCHANGED <<tab, ref, cachevars, listvars, probe, tab2>>

TableNext ==
  \/ \E k \in Keys(cap), v \in Values(cap) : TableInsert(k, v)
  \/ \E k \in Keys(cap), v \in Values(cap) : TableTryEmplace(k, v)
  \/ \E k \in Keys(cap), v \in Values(cap) : TableInsertOrAssign(k, v)
  \/ \E k \in Keys(cap) : TableErase(k)
  \/ TableClear
  \/ \E k \in Keys(cap) : TableFind(k)
  \/ TableIterate
  \/ \E n \in -cap..cap : TableSeek(n)

\* The tables of both sizes, the cache beside them left as constructed.
SpecTable == InitSizes /\ [][TableNext]_vars

\* --------------------------------------------- the table copied and assigned
\* The reference map is not kept in step with a table that is assigned to.
RefOff == [on |-> FALSE, map |-> [k \in DOMAIN ref.map |-> NoValue]]

\* tab.insert_or_assign(k, v), the call not recorded.
CopyStore(k, v) ==
  /\ tab' = iumap_insert_or_assign(tab, k, v).t
  /\ tcall' = NoTableCall
  /\ ref' = RefOff
  /\ UNCHANGED <<tab2, cachevars, listvars, probe>>

\* if (pos = tab.find(k); pos != tab.end()) tab.erase(pos), the call not
\* recorded.
CopyDrop(k) ==
  /\ iumap_find(tab, k) # iumap_end(tab)
  /\ tab' = iumap_erase(tab, iumap_find(tab, k)).t
  /\ tcall' = NoTableCall
  /\ ref' = RefOff
  /\ UNCHANGED <<tab2, cachevars, listvars, probe>>

\* tab.clear(), the call not recorded.
CopyClear ==
  /\ tab' = iumap_clear(tab)
  /\ tcall' = NoTableCall
  /\ ref' = RefOff
  /\ UNCHANGED <<tab2, cachevars, listvars, probe>>

\* iumap tab2{tab} and iumap tab2{std::move(tab)}
TableCopyCtor ==
  /\ tab2' = iumap_ctor(tab)
  /\ tcall' = [NoTableCall EXCEPT !.op = "ctor", !.before = BeforeCall]
  /\ ref' = RefOff
  /\ UNCHANGED <<tab, cachevars, listvars, probe>>

\* tab = tab2 and tab = std::move(tab2)
TableAssign ==
  /\ tab' = iumap_assign(tab, tab2, FALSE)
  /\ tcall' = [NoTableCall EXCEPT !.op = "assign", !.before = BeforeCall]
  /\ ref' = RefOff
  /\ UNCHANGED <<tab2, cachevars, listvars, probe>>

\* tab = tab
TableSelfAssign ==
  /\ tab' = iumap_assign(tab, tab, TRUE)
  /\ tcall' = [NoTableCall EXCEPT !.op = "self_assign", !.before = BeforeCall]
  /\ ref' = RefOff
  /\ UNCHANGED <<tab2, cachevars, listvars, probe>>

CopyNext ==
  \/ \E k \in Keys(cap), v \in Values(cap) : CopyStore(k, v)
  \/ CopyClear
  \/ \E k \in Keys(cap) : CopyDrop(k)
  \/ TableCopyCtor
  \/ TableAssign
  \/ TableSelfAssign

\* Two tables of Size 2, the second one a copy of an earlier state of the first.
InitCopy == InitCache({SmallSize}, FALSE) /\ InitTable /\ InitList

SpecCopy == InitCopy /\ [][CopyNext]_vars

\* The three calls that insert (k, v) into T, as the results they return.
Insertions(T, k, v) ==
  {iumap_insert(T, k, v), iumap_try_emplace(T, k, v), iumap_insert_or_assign(T, k, v)}

\* ------------------------------------------------------------ table claims
\* C11: after every sequence of insert, try_emplace, insert_or_assign, erase
\* and clear, size_ is the number of occupied slots.
C11_SizeCountsOccupied == tab.size_ = Cardinality(OccupiedSlots(tab))

\* An insert has reused a tombstone of the Size-4 table while another
\* tombstone remains.
C11_Witness ==
  /\ cap = BigSize
  /\ tcall.op \in {"insert", "try_emplace", "insert_or_assign"} /\ tcall.inserted
  /\ tcall.before.tombstones_ = 2 /\ tab.tombstones_ = 1
  /\ tab.size_ = 3

\* C12: in every reachable state and for every key k the table holds and every
\* value v2: try_emplace(k, v2) returns the slot of k and false and leaves the
\* table as it is; insert_or_assign(k, v2) returns the slot of k and false,
\* stores v2 in that slot and changes nothing else.
C12_DuplicateKey ==
  \A i \in OccupiedSlots(tab), v2 \in Values(cap) :
    /\ iumap_try_emplace(tab, tab.v_[i].key, v2) = [t |-> tab, it |-> i, inserted |-> FALSE]
    /\ iumap_insert_or_assign(tab, tab.v_[i].key, v2)
         = [t |-> [tab EXCEPT !.v_[i].mapped = v2], it |-> i, inserted |-> FALSE]

\* insert_or_assign has replaced the value of a key the table held with
\* another value, in a table with a tombstone.
C12_Witness ==
  /\ tcall.op = "insert_or_assign" /\ ~tcall.inserted
  /\ tcall.old # NoValue /\ tcall.old # tcall.val
  /\ tcall.it \in OccupiedSlots(tab)
  /\ tab.v_[tcall.it] = [state |-> "occupied", key |-> tcall.key, mapped |-> tcall.val]
  /\ tab.size_ = tcall.before.size_
  /\ tab.tombstones_ >= 1

\* C13: when every slot is occupied, insert, try_emplace and insert_or_assign
\* of a key the table does not hold return end() and false and leave the table
\* as it is.
C13_FullTableRejects ==
  OccupiedSlots(tab) = DOMAIN tab.v_ =>
    \A k \in Keys(cap) \ CachedKeys(tab), v \in Values(cap) :
      Insertions(tab, k, v) = {[t |-> tab, it |-> iumap_end(tab), inserted |-> FALSE]}

\* An insertion into the full Size-4 table has failed.
C13_Witness ==
  /\ cap = BigSize
  /\ tcall.op \in {"insert", "try_emplace", "insert_or_assign"}
  /\ ~tcall.inserted /\ tcall.it = iumap_end(tab)
  /\ tcall.key \notin CachedKeys(tab)
  /\ OccupiedSlots(tab) = DOMAIN tab.v_

\* C14: while no insertion was attempted on a full table, the pairs met
\* iterating the table are those of the reference map, and find(k) succeeds
\* exactly for the keys of the reference map.
C14_MatchesReferenceMap ==
  ref.on =>
    /\ IteratedPairs(tab) = {<<k, ref.map[k]>> : k \in {x \in DOMAIN ref.map : ref.map[x] # NoValue}}
    /\ \A k \in Keys(cap) :
         (iumap_find(tab, k) # iumap_end(tab)) = (ref.map[k] # NoValue)

\* An erase has left the Size-4 table with two entries and two tombstones, the
\* reference map in step.
C14_Witness ==
  /\ cap = BigSize /\ ref.on
  /\ tcall.op = "erase"
  /\ tab.size_ = 2 /\ tab.tombstones_ = 2

\* C15: whenever size_ < Size, insert, try_emplace and insert_or_assign of a
\* key the table does not hold return inserted = true and the slot that now
\* holds the pair, and find of the key returns that slot.
C15_InsertSucceedsWithRoom ==
  tab.size_ < iumap_capacity(tab) =>
    \A k \in Keys(cap) \ CachedKeys(tab), v \in Values(cap) :
      \A r \in Insertions(tab, k, v) :
        /\ r.inserted
        /\ r.it \in DOMAIN tab.v_
        /\ r.t.v_[r.it] = [state |-> "occupied", key |-> k, mapped |-> v]
        /\ iumap_find(r.t, k) = r.it

\* An insertion has filled the last free slot of the Size-4 table, a tombstone
\* that is not the key's home slot.
C15_Witness ==
  /\ cap = BigSize
  /\ tcall.op \in {"insert", "try_emplace", "insert_or_assign"} /\ tcall.inserted
  /\ tcall.before = [size_ |-> 3, tombstones_ |-> 1]
  /\ tcall.it # Hash(tcall.key) % iumap_capacity(tab)
  /\ tab.size_ = 4

\* C16: erase of an occupied slot of a table with at least two entries makes
\* that slot a tombstone, takes one from size_, adds one to tombstones_ and
\* leaves every other slot as it is.
C16_EraseTombstonesOneSlot ==
  tab.size_ >= 2 =>
    \A pos \in OccupiedSlots(tab) :
      \A r \in {iumap_erase(tab, pos)} :
        /\ r.t.v_[pos].state = "tombstone"
        /\ r.t.size_ = tab.size_ - 1
        /\ r.t.tombstones_ = tab.tombstones_ + 1
        /\ \A j \in DOMAIN tab.v_ \ {pos} : r.t.v_[j] = tab.v_[j]

\* An erase has left entries behind and made a second tombstone.
C16_Witness ==
  /\ tcall.op = "erase"
  /\ tcall.before.size_ >= 2
  /\ tab.size_ = tcall.before.size_ - 1
  /\ tab.tombstones_ = 2
  /\ tcall.key \notin CachedKeys(tab)

\* C17: erase of the last entry leaves every slot unused and tombstones_ = 0;
\* in every reachable state size_ = 0 implies that no slot is a tombstone.
C17_EmptyHasNoTombstone ==
  /\ tab.size_ = 0 => TombstoneSlots(tab) = {} /\ tab.tombstones_ = 0
  /\ tab.size_ = 1 =>
       \A pos \in OccupiedSlots(tab) : iumap_erase(tab, pos).t = iumap_new(cap)

\* An erase has removed the last entry of a table that held tombstones.
C17_Witness ==
  /\ tcall.op = "erase"
  /\ tcall.before.size_ = 1 /\ tcall.before.tombstones_ >= 1
  /\ tab.size_ = 0
  /\ UnusedSlots(tab) = DOMAIN tab.v_

\* C18: clear() from any reachable state leaves every slot unused, size_ = 0
\* and tombstones_ = 0, and find of every key returns end().
C18_ClearEmpties ==
  \A t \in {iumap_clear(tab)} :
    /\ UnusedSlots(t) = DOMAIN t.v_
    /\ t.size_ = 0
    /\ t.tombstones_ = 0
    /\ \A k \in Keys(cap) : iumap_find(t, k) = iumap_end(t)

\* clear() has been called on a table with entries and tombstones.
C18_Witness ==
  /\ tcall.op = "clear"
  /\ tcall.before.size_ >= 1 /\ tcall.before.tombstones_ >= 1
  /\ UnusedSlots(tab) = DOMAIN tab.v_
  /\ tab.size_ = 0 /\ tab.tombstones_ = 0

\* C19: find(k) leaves the slots, size_ and tombstones_ as they are, for every
\* key, held or not.
C19_FindHasNoSideEffects ==
  \A k \in Keys(cap) : iumap_find_call(tab, k).t = tab

\* find has missed in a table with entries and a tombstone.
C19_Witness ==
  /\ tcall.op = "find" /\ tcall.it = iumap_end(tab)
  /\ tcall.before = [size_ |-> tab.size_, tombstones_ |-> tab.tombstones_]
  /\ tab.size_ >= 1 /\ tab.tombstones_ >= 1

\* C20: stepping forward from begin() to end() visits the occupied slots, each
\* once, in increasing index; stepping backward from end() to begin() visits
\* them in decreasing index.
C20_IterationInIndexOrder ==
  /\ {Forward(tab)[i] : i \in DOMAIN Forward(tab)} = OccupiedSlots(tab)
  /\ \A i, j \in DOMAIN Forward(tab) : i < j => Forward(tab)[i] < Forward(tab)[j]
  /\ {Backward(tab)[i] : i \in DOMAIN Backward(tab)} = OccupiedSlots(tab)
  /\ \A i, j \in DOMAIN Backward(tab) : i < j => Backward(tab)[i] > Backward(tab)[j]

\* A pass over the Size-4 table has skipped an unused slot and a tombstone and
\* met the entries in an order that is not the order of their keys.
C20_Witness ==
  /\ cap = BigSize
  /\ tcall.op = "iterate"
  /\ Len(tcall.fwd) = 2 /\ Len(tcall.bwd) = 2
  /\ tcall.fwd[1] = tcall.bwd[2]
  /\ tab.v_[tcall.fwd[1]].key > tab.v_[tcall.fwd[2]].key
  /\ TombstoneSlots(tab) # {} /\ UnusedSlots(tab) # {}

\* The positions an iterator of T can take: the occupied slots in array order,
\* then end().
Positions(T) == Forward(T) \o <<iumap_end(T)>>

\* C21: from every occupied slot and from end(), and for every n that stays
\* between begin() and end(): += n lands n positions further and -= n brings
\* the iterator back; -= n lands n positions earlier and += n brings it back;
\* += -n is -= n and -= -n is += n; and n steps are n - 1 steps followed by one
\* operator++ (operator--).
C21_SeekRoundTrip ==
  \A P \in {Positions(tab)} :
    \A i \in DOMAIN P, n \in 0..iumap_capacity(tab) :
      /\ i + n <= Len(P) =>
            \A there \in {iterator_add_assign(tab, P[i], n)} :
              /\ there = P[i + n]
              /\ iterator_sub_assign(tab, there, n) = P[i]
              /\ iterator_minus(tab, iterator_plus(tab, P[i], n), n) = P[i]
              /\ iterator_sub_assign(tab, P[i], -n) = there
              /\ n > 0 => there = iterator_inc(tab, iterator_add_assign(tab, P[i], n - 1))
      /\ i - n >= 1 =>
            \A there \in {iterator_sub_assign(tab, P[i], n)} :
              /\ there = P[i - n]
              /\ iterator_add_assign(tab, there, n) = P[i]
              /\ iterator_plus(tab, iterator_minus(tab, P[i], n), n) = P[i]
              /\ iterator_add_assign(tab, P[i], -n) = there
              /\ n > 0 => there = iterator_dec(tab, iterator_sub_assign(tab, P[i], n - 1))

\* Reached: in a table with an unoccupied slot between two occupied ones, an
\* iterator went from end() two positions back, over the gap, and returned.
C21_Witness ==
  /\ tcall.op = "seek"
  /\ tcall.n = -2
  /\ tcall.fwd[1] = iumap_end(tab)
  /\ tcall.fwd[3] = iumap_end(tab)
  /\ tcall.fwd[2] \in OccupiedSlots(tab)
  /\ \E gap \in DOMAIN tab.v_ \ OccupiedSlots(tab) :
       /\ tcall.fwd[2] < gap
       /\ \E j \in OccupiedSlots(tab) : gap < j

\* C23: erase(pos) returns the first occupied slot after pos in array order,
\* or end() when there is none; when the erase empties the table it returns
\* end(). The slot returned is occupied in the table after the erase too.
C23_EraseReturnsNext ==
  \A pos \in OccupiedSlots(tab) :
    \A r \in {iumap_erase(tab, pos)} :
      \A later \in {{j \in OccupiedSlots(tab) : j > pos}} :
        /\ later = {} => r.it = iumap_end(tab)
        /\ later # {} => /\ r.it \in later
                          /\ \A j \in later : r.it <= j
                          /\ r.it \in OccupiedSlots(r.t)
        /\ tab.size_ = 1 => r.it = iumap_end(r.t) /\ r.t = iumap_new(iumap_capacity(tab))

\* Reached: an erase returned an occupied slot that is not the slot after the
\* erased one.
C23_Witness ==
  /\ tcall.op = "erase"
  /\ tcall.it \in OccupiedSlots(tab)
  /\ \E pos \in TombstoneSlots(tab) :
       /\ pos + 1 < tcall.it
       /\ \A j \in (pos + 1)..(tcall.it - 1) : j \notin OccupiedSlots(tab)
  /\ iumap_find(tab, tcall.key) = iumap_end(tab)

\* What C22 asks of a table a that was assigned or constructed from b: the
\* slots and the counters of b, the counters true of the slots, and find
\* agreeing with find on b for every key.
CopyOf(a, b) ==
  /\ a.v_ = b.v_
  /\ a.size_ = b.size_ /\ a.size_ = Cardinality(OccupiedSlots(a))
  /\ a.tombstones_ = b.tombstones_ /\ a.tombstones_ = Cardinality(TombstoneSlots(a))
  /\ CachedKeys(a) = CachedKeys(b)
  /\ \A k \in Keys(cap) : iumap_find(a, k) = iumap_find(b, k)

\* C22: tab = tab2 and tab2 = tab (copy or move) and a table constructed from
\* tab or from tab2 equal their source slot by slot, tombstones included, with
\* its counters and its find results; no key of the destination that the
\* source lacks is found afterwards.
C22_CopyEqualsSource ==
  /\ CopyOf(iumap_assign(tab, tab2, FALSE), tab2)
  /\ CopyOf(iumap_assign(tab2, tab, FALSE), tab)
  /\ CopyOf(iumap_ctor(tab), tab)
  /\ CopyOf(iumap_ctor(tab2), tab2)
  /\ \A k \in CachedKeys(tab) \ CachedKeys(tab2) :
       iumap_find(iumap_assign(tab, tab2, FALSE), k) = iumap_end(tab)

\* Reached: a full table was assigned a table with one tombstone and one
\* entry, and now equals it.
C22_Witness ==
  /\ tcall.op = "assign"
  /\ tcall.before.size_ = iumap_capacity(tab)
  /\ tab2.size_ = 1 /\ tab2.tombstones_ = 1
  /\ tab = tab2

\* ---------------------------------------------------- the list on its own
\* The payloads the list is driven with.
ListPayloads == {[first |-> 1, second |-> v] : v \in 1..MaxVal}

\* The nodes that hold a payload: add claims them in array order.
LiveNodes(L) == {i \in DOMAIN L.v_ : i < L.size_}

\* The call on lst that is recorded with what lst was before it.
ListCall(op, node, payload, ev) ==
  [op |-> op, node |-> node, payload |-> payload, evicted |-> ev,
   size |-> lst.size_, first |-> lst.first_, last |-> lst.last_, ub |-> "none"]

\* lst.add(payload, evictor)
ListAdd(payload) ==
  /\ lcall.ub = "none"
  /\ \E r \in lru_add_outcomes(lst, payload) :
       /\ lst' = r.l
       /\ lcall' = [ListCall("add", r.node, payload, r.evicted) EXCEPT !.ub = r.ub]
  /\ labs' = SeqAdd(labs, cap, payload)
  /\ UNCHANGED <<cachevars, tablevars>>

\* lst.touch(n), n a node that add returned
ListTouch(n) ==
  /\ lcall.ub = "none"
  /\ n \in LiveNodes(lst)
  /\ lst' = lru_touch(lst, n)
  /\ lcall' = ListCall("touch", n, lst.v_[n].payload, <<>>)
  /\ labs' = SeqTouch(labs, n)
  /\ UNCHANGED <<cachevars, tablevars>>

\* lst.clear()
ListClear ==
  /\ lcall.ub = "none"
  /\ lst' = lru_clear(lst)
  /\ lcall' = ListCall("clear", Null, no_payload, <<>>)
  /\ labs' = SeqNew(cap)
  /\ UNCHANGED <<cachevars, tablevars>>

ListNext ==
  \/ \E payload \in ListPayloads : ListAdd(payload)
  \/ \E n \in DOMAIN lst.v_ : ListTouch(n)
  \/ ListClear

\* The lists of both sizes, the cache beside them left as constructed.
SpecList == InitSizes /\ [][ListNext]_vars

\* The payloads of the nodes other than n are the same in L and M.
SamePayloadsBut(L, M, n) ==
  \A i \in DOMAIN L.v_ \ {n} : M.v_[i].payload = L.v_[i].payload

\* ------------------------------------------------------------- list claims
\* C24: add below capacity calls no evictor, returns the node whose index is
\* the size before the call, stores the payload there and nowhere else, adds
\* one to size_, and puts the node at the head in front of the previous nodes
\* in their previous order.
C24_AddBelowCapacity ==
  lst.size_ < cap =>
    \A payload \in ListPayloads :
      \A r \in {lru_add(lst, payload)} :
        /\ r.evicted = <<>>
        /\ r.node = lst.size_
        /\ r.l.v_[r.node].payload = payload
        /\ SamePayloadsBut(lst, r.l, r.node)
        /\ r.l.size_ = lst.size_ + 1
        /\ r.l.first_ = r.node
        /\ Chain(r.l) = <<r.node>> \o Chain(lst)

\* Reached: an add below capacity claimed node 2 of a list whose two earlier
\* nodes were not in the order they were claimed in.
C24_Witness ==
  /\ lcall.op = "add"
  /\ lcall.size = 2 /\ lcall.node = 2
  /\ lcall.evicted = <<>>
  /\ Chain(lst) = <<2, 0, 1>>

\* C25: add at capacity calls the evictor once, with the payload the tail node
\* held before the call; it returns that node, which then holds the new
\* payload and is the head; the node before it becomes the tail; size_, the
\* other payloads and the order of the other nodes are unchanged.
C25_AddAtCapacity ==
  lst.size_ = cap =>
    \A payload \in ListPayloads :
      \A r \in {lru_add(lst, payload)} :
        /\ r.evicted = <<lst.v_[lst.last_].payload>>
        /\ r.node = lst.last_
        /\ r.l.v_[r.node].payload = payload
        /\ SamePayloadsBut(lst, r.l, r.node)
        /\ r.l.size_ = lst.size_
        /\ r.l.first_ = r.node
        /\ r.l.last_ = Chain(lst)[cap - 1]
        /\ Chain(r.l) = <<r.node>> \o SubSeq(Chain(lst), 1, cap - 1)

\* Reached: an add to a full list evicted a payload other than the one added.
C25_Witness ==
  /\ lcall.op = "add"
  /\ lcall.size = cap
  /\ Len(lcall.evicted) = 1
  /\ lcall.evicted[1] # lcall.payload
  /\ lcall.node = lcall.last
  /\ lst.first_ = lcall.node

\* C26: touch of the head changes nothing; touch of another live node makes
\* it the head in front of the other nodes in their previous order, moves the
\* tail to the node's predecessor when it was the tail, and changes neither
\* size_ nor any payload.
C26_TouchMovesToHead ==
  \A n \in LiveNodes(lst) :
    \A r \in {lru_touch(lst, n)} :
      /\ n = lst.first_ => r = lst
      /\ n # lst.first_ =>
            /\ r.first_ = n
            /\ Chain(r) = <<n>> \o Without(Chain(lst), n)
            /\ Len(Chain(r)) = lst.size_
            /\ n = lst.last_ => r.last_ = Chain(lst)[lst.size_ - 1]
            /\ n # lst.last_ => r.last_ = lst.last_
            /\ r.size_ = lst.size_
            /\ SamePayloadsBut(lst, r, Null)

\* Reached: the tail of a full list of four was touched.
C26_Witness ==
  /\ lcall.op = "touch"
  /\ lcall.size = BigSize
  /\ lcall.node = lcall.last
  /\ lst.first_ = lcall.node
  /\ lst.last_ # lcall.node

\* check_invariants, with the walk bounded by one step more than the array
\* has nodes.
ListValid(L) ==
  LET walk == chain_from(L, L.first_, Cardinality(DOMAIN L.v_) + 1)
  IN  /\ (L.first_ = Null) <=> (L.size_ = 0)
      /\ (L.first_ = L.last_) <=> (L.size_ < 2)
      /\ L.first_ # Null => L.v_[L.first_].prev = Null
      /\ L.last_ # Null => L.v_[L.last_].next = Null
      /\ \A i \in DOMAIN walk :
           L.v_[walk[i]].prev = IF i = 1 THEN Null ELSE walk[i - 1]
      /\ L.last_ = IF walk = <<>> THEN Null ELSE walk[Len(walk)]
      /\ Len(walk) <= Cardinality(DOMAIN L.v_)

\* C27: after every sequence of add, touch and clear the list passes
\* check_invariants: head null iff empty, head = tail iff fewer than two
\* nodes, head.prev and tail.next null, each node's prev the node walked just
\* before it, and the walk ending at the tail.
C27_ListInvariants == ListValid(lst)

\* Reached: a full list of four whose nodes are not in array order, after a
\* touch.
C27_Witness ==
  /\ lcall.op = "touch"
  /\ lst.size_ = BigSize
  /\ Chain(lst) = <<1, 3, 0, 2>>

PlacesOf(T, P, st) == {j \in DOMAIN P : T.v_[P[j]].state = st}

\* The least element of a non-empty set of numbers.
Least(S) == CHOOSE x \in S : \A y \in S : x <= y

\* C31: an insertion of a key that is not in the table puts it in the first
\* tombstone of the key's probe sequence when that tombstone comes before the
\* first unused slot or there is no unused slot, and then tombstones_ drops by
\* one; otherwise it puts it in the first unused slot and tombstones_ stays.
C31_InsertPrefersTombstone ==
  \A k \in Keys(cap) \ CachedKeys(tab) :
    \A P \in {probe_positions(tab, k)} :
      \A tombs \in {PlacesOf(tab, P, "tombstone")}, empties \in {PlacesOf(tab, P, "unused")} :
        \A v \in Values(cap) :
          \A r \in Insertions(tab, k, v) :
            /\ (tombs # {} /\ (empties = {} \/ Least(tombs) < Least(empties))) =>
                  /\ r.inserted
                  /\ r.it = P[Least(tombs)]
                  /\ r.t.tombstones_ = tab.tombstones_ - 1
            /\ (empties # {} /\ (tombs = {} \/ Least(empties) < Least(tombs))) =>
                  /\ r.inserted
                  /\ r.it = P[Least(empties)]
                  /\ r.t.tombstones_ = tab.tombstones_
            /\ r.inserted => r.t.v_[r.it] = [state |-> "occupied", key |-> k, mapped |-> v]

\* Reached: an insertion went into a tombstone, not the key's home slot, while
\* the table had an unused slot.
C31_Witness ==
  /\ tcall.op \in {"insert", "try_emplace", "insert_or_assign"}
  /\ tcall.inserted
  /\ tcall.before.tombstones_ = tab.tombstones_ + 1
  /\ tcall.it # Hash(tcall.key) % iumap_capacity(tab)
  /\ UnusedSlots(tab) # {}

\* What find tells about key in T: the value stored, NoValue when not found.
Found(T, key) ==
  IF iumap_find(T, key) = iumap_end(T) THEN NoValue ELSE T.v_[iumap_find(T, key)].mapped

\* C32: an insertion or an erase of key k leaves find of every other key as it
\* was: found with the same value in the same slot, or not found.
C32_OtherKeysUnaffected ==
  \A k \in Keys(cap) :
    \A after \in {r.t : r \in UNION {Insertions(tab, k, v) : v \in Values(cap)}}
                 \cup {iumap_erase(tab, pos).t : pos \in {iumap_find(tab, k)} \ {iumap_end(tab)}} :
      \A k2 \in Keys(cap) \ {k} :
        /\ Found(after, k2) = Found(tab, k2)
        /\ iumap_find(after, k2) = iumap_find(tab, k2)

\* Reached: after an erase, a key is found by a lookup that passes the
\* tombstone of the erased key, the only tombstone of the table.
C32_Witness ==
  /\ tcall.op = "erase"
  /\ tab.tombstones_ = 1
  /\ \E k2 \in CachedKeys(tab) :
       \E P \in {probe_positions(tab, k2)} :
         \E j \in DOMAIN P :
           /\ P[j] = iumap_find(tab, k2)
           /\ \E i \in 1..(j - 1) : tab.v_[P[i]].state = "tombstone"

\* C36: no key is held by two occupied slots, and every occupied slot is on
\* the probe sequence of its key with no unused slot before it.
C36_NoDuplicateNoHiddenKey ==
  /\ \A i, j \in OccupiedSlots(tab) : tab.v_[i].key = tab.v_[j].key => i = j
  /\ \A i \in OccupiedSlots(tab) :
       \A P \in {probe_positions(tab, tab.v_[i].key)} :
         \E j \in DOMAIN P :
           /\ P[j] = i
           /\ \A e \in 1..(j - 1) : tab.v_[P[e]].state # "unused"

\* Reached: a key was inserted into a tombstone that lies before the slot of
\* another key on that key's probe sequence.
C36_Witness ==
  /\ tcall.op \in {"insert", "try_emplace", "insert_or_assign"}
  /\ tcall.inserted
  /\ tcall.before.tombstones_ = tab.tombstones_ + 1
  /\ \E k2 \in CachedKeys(tab) \ {tcall.key} :
       \E P \in {probe_positions(tab, k2)} :
         \E j \in DOMAIN P :
           /\ P[j] = iumap_find(tab, k2)
           /\ \E e \in 1..(j - 1) : P[e] = tcall.it

\* ------------------------------------------- the list and its reference list
\* The entries of L from first_ along next: the node and its payload.
ListEntries(L) ==
  [i \in DOMAIN Chain(L) |-> [node |-> Chain(L)[i], payload |-> L.v_[Chain(L)[i]].payload]]

Walk(L) == chain_from(L, L.first_, Cardinality(DOMAIN L.v_) + 1)

\* What C40 asks of a list: the nodes that hold a payload are those below
\* size_, and the walk from first_ meets each of them once and no other node.
LiveNodesChained(L) ==
  /\ \A n \in DOMAIN L.v_ : (L.v_[n].payload # no_payload) <=> (n < L.size_)
  /\ Len(Walk(L)) = L.size_
  /\ \A i, j \in DOMAIN Walk(L) : Walk(L)[i] = Walk(L)[j] => i = j
  /\ {Walk(L)[i] : i \in DOMAIN Walk(L)} = LiveNodes(L)

\* C40: in every list reachable by add, touch and clear the live nodes are the
\* nodes below size_ and the walk from first_ visits each once, and no live
\* node stops being live by add or touch.
C40_LiveNodesChained ==
  /\ LiveNodesChained(lst)
  /\ lcall.op \in {"add", "touch"} => lcall.size <= lst.size_
  /\ \A payload \in ListPayloads : LiveNodes(lst) \subseteq LiveNodes(lru_add(lst, payload).l)
  /\ \A n \in LiveNodes(lst) : LiveNodes(lru_touch(lst, n)) = LiveNodes(lst)

\* Reached: a full list of four nodes whose walk is not in array order, after
\* an add that reused its tail node.
C40_Witness ==
  /\ lcall.op = "add" /\ lcall.size = BigSize /\ lcall.node = lcall.last
  /\ lst.size_ = BigSize
  /\ Walk(lst)[2] < Walk(lst)[3]

\* ------------------------------------------------------ the list of one node
\* The sizes up to the cache's that iumap's requires clause admits: 1, 2, 4.
PowerSizes == {n \in 1..BigSize : is_power_of_two(n)}

InitPowerSizes == InitCache(PowerSizes, FALSE) /\ InitTable /\ InitList

\* The lists of every admitted size, the list of one node among them.
SpecListPower == InitPowerSizes /\ [][ListNext]_vars

\* C34: add on a full list works for every Size >= 1: it returns, having
\* called the evictor with the payload of the tail node and with nothing else,
\* the tail node holds the new payload and is the head, size_ is Size and the
\* list is well formed; on the list of one node first_ and last_ are that node
\* and its prev and next are null.
C34_AddAtCapacityAnySize ==
  (lcall.op = "add" /\ lcall.size = cap) =>
    /\ lcall.ub = "none"
    /\ lcall.evicted = labs.dropped /\ Len(lcall.evicted) = 1
    /\ lcall.node = lcall.last
    /\ lst.v_[lcall.node].payload = lcall.payload
    /\ lst.first_ = lcall.node
    /\ lst.size_ = cap
    /\ ListValid(lst)
    /\ cap = 1 =>
         /\ lst.last_ = lst.first_
         /\ lst.v_[lst.first_].prev = Null /\ lst.v_[lst.first_].next = Null

\* What C35 asks of a table: tombstones_ counts the tombstone slots, and the
\* occupied and the tombstone slots together are at most Size.
CountersSound(T) ==
  /\ T.tombstones_ = Cardinality(TombstoneSlots(T))
  /\ T.size_ + T.tombstones_ <= iumap_capacity(T)

\* C35: in every table reachable by insert, try_emplace, insert_or_assign,
\* erase, clear, copy construction and assignment, tombstones_ is the number of
\* tombstone slots and size_ + tombstones_ is at most Size; the same is true of
\* the table each of these calls would leave next.
C35_TombstoneCountSound ==
  /\ CountersSound(tab)
  /\ CountersSound(tab2)
  /\ CountersSound(iumap_ctor(tab))
  /\ CountersSound(iumap_assign(tab, tab2, FALSE))
  /\ CountersSound(iumap_assign(tab2, tab, FALSE))
  /\ CountersSound(iumap_clear(tab))
  /\ \A k \in Keys(cap) :
       /\ \A v \in Values(cap) : \A r \in Insertions(tab, k, v) : CountersSound(r.t)
       /\ iumap_find(tab, k) # iumap_end(tab) =>
            CountersSound(iumap_erase(tab, iumap_find(tab, k)).t)

\* Reached: a table holding a tombstone and an entry was assigned a table with
\* the two the other way round, and a pair was then inserted into its
\* tombstone: it is full, with no tombstone left.
C35_Witness ==
  /\ tcall.op = "none"
  /\ tab.size_ = iumap_capacity(tab) /\ tab.tombstones_ = 0
  /\ tab2.size_ = 1 /\ tab2.tombstones_ = 1
  /\ \E i \in TombstoneSlots(tab2) : tab.v_[i].key # NoKey
  /\ \E i \in OccupiedSlots(tab2) : tab.v_[i] = tab2.v_[i]

\* ------------------------------------------------- the miss path of set
\* C38: in every reachable cache the table has as many slots as the list has
\* nodes, and set of any key that is not cached inserts it: insert returns
\* inserted = true and the key is found afterwards. When the list is full the
\* evictor has been called once and has left the table one entry short of the
\* capacity before the insertion.
C38_MissAlwaysInserts ==
  /\ iumap_capacity(h) = Cardinality(DOMAIN lru.v_)
  /\ \A k \in Keys(cap) \ CachedKeys(h), v \in Values(cap) :
       \A m \in {cache_set_miss(Cache, k, v)} :
         /\ m.ins.inserted
         /\ m.ins.t.size_ = m.added.l.size_
         /\ lru.size_ = cap => Len(m.added.evicted) = 1 /\ m.h1.size_ = cap - 1
         /\ lru.size_ < cap => m.added.evicted = <<>> /\ m.h1 = h
         /\ \A r \in {cache_set(Cache, k, v)} :
              /\ r.h = m.ins.t /\ r.lru = m.added.l
              /\ iumap_find(r.h, k) = m.ins.it /\ m.ins.it # iumap_end(h)

\* Reached: a cache of two entries was filled and a third key was set; no slot
\* of the table is free and the third key is cached, the first is not.
C38_Witness ==
  /\ cap = SmallSize /\ fill.on /\ Len(fill.kv) = cap + 1
  /\ h.size_ = cap /\ OccupiedSlots(h) = DOMAIN h.v_
  /\ fill.kv[cap + 1][1] \in CachedKeys(h)
  /\ evicted = fill.kv[1][1] /\ evicted \notin CachedKeys(h)

\* C39: whenever set of a key that is not cached finds the list full, the
\* evictor is handed the payload of the tail node, its key is in the table at
\* that moment and the evictor erases that entry and no other; the tail node
\* then holds the new pair and is the head; the new key is then inserted with
\* that node as its value; and every other key is found where it was, with the
\* node it had.
C39_EvictionSteps ==
  lru.size_ = cap =>
    \A k \in Keys(cap) \ CachedKeys(h), v \in Values(cap) :
      \A m \in {cache_set_miss(Cache, k, v)} :
        /\ m.added.evicted = <<lru.v_[lru.last_].payload>>
        /\ m.found # iumap_end(h)
        /\ h.v_[m.found].state = "occupied"
        /\ h.v_[m.found].key = m.added.evicted[1].first
        /\ m.h1 = iumap_erase(h, m.found).t
        /\ \A i \in DOMAIN h.v_ \ {m.found} : m.h1.v_[i] = h.v_[i]
        /\ m.h1.v_[m.found].state # "occupied"
        /\ m.added.node = lru.last_
        /\ m.added.l.v_[m.added.node].payload = [first |-> k, second |-> v]
        /\ m.added.l.first_ = m.added.node
        /\ m.ins.inserted
        /\ m.ins.t.v_[m.ins.it] = [state |-> "occupied", key |-> k, mapped |-> m.added.node]
        /\ \A i \in DOMAIN h.v_ \ {m.found, m.ins.it} : m.ins.t.v_[i] = h.v_[i]
        /\ \A k2 \in CachedKeys(h) \ {m.added.evicted[1].first} :
             /\ iumap_find(m.ins.t, k2) = iumap_find(h, k2)
             /\ m.ins.t.v_[iumap_find(h, k2)] = h.v_[iumap_find(h, k2)]
        /\ \A r \in {cache_set(Cache, k, v)} :
             r = [h |-> m.ins.t, lru |-> m.added.l, ret |-> FALSE, evicted |-> m.added.evicted]

\* Reached: a cache of four entries was filled and a fifth key was set: it sits
\* off its home slot with node 0, which the first key had, as its value, the
\* first key is gone and the three keys between are cached.
C39_Witness ==
  /\ cap = BigSize /\ fill.on /\ Len(fill.kv) = cap + 1
  /\ evicted = fill.kv[1][1] /\ evicted \notin CachedKeys(h)
  /\ \E i \in OccupiedSlots(h) :
       /\ h.v_[i].key = fill.kv[cap + 1][1]
       /\ i # Hash(h.v_[i].key) % cap
       /\ h.v_[i].mapped = 0
  /\ lru.first_ = 0
  /\ \A j \in 2..cap : fill.kv[j][1] \in CachedKeys(h)

\* ------------------------------------------------ the probing loop on its own
\* The largest table size whose probing loop is run.
MaxProbeSize == 16

\* lookup_slot or find_insert_slot is entered for key on a table of size slots
\* (requires(is_power_of_two(Size))): pos = Hash{}(key) % size, iteration = 1U.
ProbeBegin(size, key) ==
  /\ is_power_of_two(size)
  /\ probe' = [size |-> size, pos |-> Hash(key) % size, iteration |-> 1, seen |-> <<>>]
  /\ UNCHANGED <<cachevars, listvars, tab, ref, tcall, tab2>>

\* One iteration of the loop at a slot that does not end the search (a
\* tombstone, or occupied by another key): v_[pos] is read, then
\* pos = (pos + iteration) % size; ++iteration.
ProbeIteration ==
  /\ probe.size > 0
  /\ probe.iteration <= probe.size
  /\ probe' = [probe EXCEPT !.seen = Append(@, probe.pos),
                            !.pos = probe_step(probe.pos, probe.iteration, probe.size),
                            !.iteration = @ + 1]
  /\ UNCHANGED <<cachevars, listvars, tab, ref, tcall, tab2>>

ProbeNext ==
  \/ \E size \in 1..MaxProbeSize, key \in 0..(MaxProbeSize - 1) : ProbeBegin(size, key)
  \/ ProbeIteration

SpecProbe == InitCopy /\ [][ProbeNext]_vars

\* C37: for a power-of-two Size and any start position, the positions the
\* probing loop reads are pairwise distinct and at most Size in number, they
\* are the ones the triangular step yields from the start, and when the loop
\* runs out after Size iterations it has read every slot of the table once.
C37_ProbeVisitsEverySlotOnce ==
  probe.size > 0 =>
    /\ is_power_of_two(probe.size)
    /\ Len(probe.seen) = probe.iteration - 1
    /\ Len(probe.seen) <= probe.size
    /\ \A i, j \in DOMAIN probe.seen : probe.seen[i] = probe.seen[j] => i = j
    /\ \A i \in DOMAIN probe.seen : probe.seen[i] \in 0..(probe.size - 1)
    /\ \A i \in DOMAIN probe.seen :
         i > 1 => probe.seen[i] = (probe.seen[i - 1] + (i - 1)) % probe.size
    /\ probe.iteration > probe.size =>
         {probe.seen[i] : i \in DOMAIN probe.seen} = 0..(probe.size - 1)

\* A loop over a table larger than the cache's ran out, from a start position
\* other than slot 0.
C37_Witness ==
  /\ probe.size > BigSize
  /\ probe.iteration > probe.size
  /\ probe.seen[1] # 0
====
